---- MODULE Spec2Model ----
(***************************************************************************)
(* Model of the SequenceExample builder (sequence-example-builder.js):     *)
(* buildSequenceExample turns a feature map into the protobuf wire bytes   *)
(* of a tensorflow.SequenceExample, toHex renders bytes as hexadecimal.    *)
(*                                                                         *)
(* Bytes are sequences of 0..255, text is a sequence of Unicode code       *)
(* points, a JavaScript number is the rational num/den (den > 0), a hex    *)
(* string is a sequence of one-character strings.                          *)
(***************************************************************************)
EXTENDS Integers, Sequences, FiniteSets, TLC

\* ------------------------------------------------------------------ bounds

\* Most entries (keys) of one feature map.
MaxKeys == 2

\* Most values of one feature map, all its lists together.
MaxValues == 2

\* ------------------------------------------------------------ value domain

\* "ad_type", "userid", "bad" as code points.
Key_ad_type == <<97, 100, 95, 116, 121, 112, 101>>
Key_userid == <<117, 115, 101, 114, 105, 100>>
Key_bad == <<98, 97, 100>>

KeySet == {Key_ad_type, Key_userid, Key_bad}

\* "SC_CPCV_1"
Text_SC_CPCV_1 == <<83, 67, 95, 67, 80, 67, 86, 95, 49>>

\* "né€": one-, two- and three-byte code points.
Text_multibyte == <<110, 233, 8364>>

StringValue(cp) == [typeof |-> "string", cp |-> cp]
NumberValue(num, den) == [typeof |-> "number", num |-> num, den |-> den]
\* A Buffer of the given length whose n-th byte is (n * step) % 256.
BufferValue(length, step) ==
  [typeof |-> "object", isBuffer |-> TRUE, length |-> length, step |-> step]

BufferBytes(value) == [n \in 1..value.length |-> (n * value.step) % 256]
ObjectValue == [typeof |-> "object", isBuffer |-> FALSE]
BooleanValue == [typeof |-> "boolean", isBuffer |-> FALSE]

\* A 126-byte blob: its map entry is longer than 127 bytes, so the length of
\* the wrapped map needs a two-byte varint.
LongBlob == BufferValue(126, 7)

ScalarSet ==
  { StringValue(Text_SC_CPCV_1), StringValue(Text_multibyte),
    NumberValue(42, 1), NumberValue(-1, 1), NumberValue(999, 100),
    LongBlob, ObjectValue, BooleanValue }

\* The value of one key: an array of scalars, or (a caller's slip) a scalar.
ArrayOf(items) == [isArray |-> TRUE, items |-> items]
NotArray(v) == [isArray |-> FALSE, scalar |-> v]

RECURSIVE SeqsOfLen(_, _)
SeqsOfLen(S, n) ==
  IF n = 0 THEN {<<>>}
  ELSE {Append(s, x) : s \in SeqsOfLen(S, n - 1), x \in S}

\* The values of a key that count for n: the arrays of n values and, for one,
\* the scalar a caller passes instead of an array.
ValuesSet(n) ==
  {ArrayOf(items) : items \in SeqsOfLen(ScalarSet, n)}
    \cup (IF n = 1 THEN {NotArray(StringValue(Text_SC_CPCV_1))} ELSE {})

NumValues(values) == IF values.isArray THEN Len(values.items) ELSE 1

\* Object.entries(featureListsData): the own properties in insertion order,
\* every key once; at most n entries over the keys given, holding at most
\* budget values together.
RECURSIVE MapsOver(_, _, _)
MapsOver(keys, n, budget) ==
  IF n = 0 THEN {<<>>}
  ELSE {<<>>} \cup
       UNION { LET rests == MapsOver(keys \ {kc[1]}, n - 1, budget - kc[2])
               IN { <<[key |-> kc[1], values |-> v]>> \o rest :
                      v \in ValuesSet(kc[2]), rest \in rests } :
               kc \in keys \X (0..budget) }

FeatureMaps == MapsOver(KeySet, MaxKeys, MaxValues)

\* ---------------------------------------------------------- wire encoding

RECURSIVE Concat(_)
Concat(seqs) == IF seqs = <<>> THEN <<>> ELSE Head(seqs) \o Concat(Tail(seqs))

\* Writer.uint32: base-128 varint, least significant group first.
RECURSIVE Varint(_)
Varint(n) ==
  IF n < 128 THEN <<n>> ELSE <<(n % 128) + 128>> \o Varint(n \div 128)

\* Writer.int64 of a JavaScript number: a negative number is written as its
\* 64-bit two's complement, ten bytes.  For n < 0 the complement of
\* m = -n - 1 is taken group by group.
Int64Varint(n) ==
  IF n >= 0 THEN Varint(n)
  ELSE LET m == (-n) - 1
           RECURSIVE Group(_, _)
           Group(k, rest) ==
             IF k = 9 THEN <<1>>
             ELSE <<(127 - (rest % 128)) + 128>> \o Group(k + 1, rest \div 128)
       IN Group(0, m)

\* Buffer.from(text, 'utf-8') and Writer.string: UTF-8 of well-formed text.
UTF8CodePoint(c) ==
  IF c < 128 THEN <<c>>
  ELSE IF c < 2048 THEN <<192 + (c \div 64), 128 + (c % 64)>>
  ELSE IF c < 65536
    THEN <<224 + (c \div 4096), 128 + ((c \div 64) % 64), 128 + (c % 64)>>
  ELSE <<240 + (c \div 262144), 128 + ((c \div 4096) % 64),
         128 + ((c \div 64) % 64), 128 + (c % 64)>>

UTF8(cp) == Concat([n \in 1..Len(cp) |-> UTF8CodePoint(cp[n])])

RECURSIVE Pow2(_)
Pow2(n) == IF n = 0 THEN 1 ELSE 2 * Pow2(n - 1)

\* Writer.float: the number narrowed to IEEE-754 single precision (round to
\* nearest, ties to even), little endian.  num/den is a non-zero normal value.
Float32LE(num, den) ==
  LET a == IF num < 0 THEN -num ELSE num
      sign == IF num < 0 THEN 1 ELSE 0
      \* e with 2^e <= a/den < 2^(e+1)
      RECURSIVE Up(_)
      Up(e) == IF a >= den * Pow2(e + 1) THEN Up(e + 1) ELSE e
      RECURSIVE Down(_)
      Down(e) == IF a * Pow2(e) < den THEN Down(e + 1) ELSE e
      exp == IF a >= den THEN Up(0) ELSE -Down(1)
      A == IF exp < 0 THEN a * Pow2(-exp) ELSE a
      D == IF exp > 0 THEN den * Pow2(exp) ELSE den
      \* 23 fraction bits by long division, then the remainder
      RECURSIVE Bits(_, _, _)
      Bits(k, r, m) ==
        IF k = 23 THEN <<m, r>>
        ELSE IF 2 * r >= D THEN Bits(k + 1, 2 * r - D, 2 * m + 1)
        ELSE Bits(k + 1, 2 * r, 2 * m)
      mr == Bits(0, A - D, 0)
      up == \/ 2 * mr[2] > D
            \/ (2 * mr[2] = D /\ mr[1] % 2 = 1)
      m1 == IF up THEN mr[1] + 1 ELSE mr[1]
      frac == IF m1 = 8388608 THEN 0 ELSE m1
      E == (IF m1 = 8388608 THEN exp + 1 ELSE exp) + 127
  IN <<frac % 256, (frac \div 256) % 256,
       (E % 2) * 128 + (frac \div 65536), sign * 128 + (E \div 2)>>

\* The length written as one byte, whatever it is.
LenDelim_oneByteLength(field, payload) ==
  <<field * 8 + 2, Len(payload) % 256>> \o payload

\* A length-delimited field: tag (field number, wire type 2), length, payload.
LenDelim(field, payload) ==
  <<field * 8 + 2>> \o Varint(Len(payload)) \o payload

\* BytesList { repeated bytes value = 1 }
EncodeBytesList(m) ==
  Concat([n \in 1..Len(m.value) |-> LenDelim(1, m.value[n])])

\* FloatList { repeated float value = 1 }, packed
EncodeFloatList(m) ==
  IF m.value = <<>> THEN <<>>
  ELSE LenDelim(1, Concat([n \in 1..Len(m.value) |->
                             Float32LE(m.value[n].num, m.value[n].den)]))

\* Int64List { repeated int64 value = 1 }, packed
EncodeInt64List(m) ==
  IF m.value = <<>> THEN <<>>
  ELSE LenDelim(1, Concat([n \in 1..Len(m.value) |->
                             Int64Varint(m.value[n].num \div m.value[n].den)]))

\* Feature { oneof kind { bytes_list = 1; float_list = 2; int64_list = 3 } }:
\* every member the object holds is written, in field order.
EncodeFeature(f) ==
  (IF "bytesList" \in DOMAIN f THEN LenDelim(1, EncodeBytesList(f.bytesList)) ELSE <<>>)
    \o (IF "floatList" \in DOMAIN f THEN LenDelim(2, EncodeFloatList(f.floatList)) ELSE <<>>)
    \o (IF "int64List" \in DOMAIN f THEN LenDelim(3, EncodeInt64List(f.int64List)) ELSE <<>>)

\* FeatureList { repeated Feature feature = 1 }
EncodeFeatureList(fl) ==
  Concat([n \in 1..Len(fl.feature) |-> LenDelim(1, EncodeFeature(fl.feature[n]))])

\* One entry of map<string, FeatureList>: key = 1, value = 2.
EncodeMapEntry(e) ==
  LenDelim(1, UTF8(e.key)) \o LenDelim(2, EncodeFeatureList(e.value))

\* FeatureLists { map<string, FeatureList> feature_list = 1 }
EncodeFeatureLists(m) ==
  Concat([n \in 1..Len(m.featureList) |->
            LenDelim(1, EncodeMapEntry(m.featureList[n]))])

\* A message without entries left out, the way a default value is.
EncodeSequenceExample_skipEmpty(m) ==
  IF "featureLists" \in DOMAIN m /\ m.featureLists.featureList # <<>>
    THEN LenDelim(2, EncodeFeatureLists(m.featureLists))
    ELSE <<>>

\* SequenceExample { Features context = 1; FeatureLists feature_lists = 2 }
EncodeSequenceExample(m) ==
  IF "featureLists" \in DOMAIN m
    THEN LenDelim(2, EncodeFeatureLists(m.featureLists))
    ELSE <<>>

\* The schema before the fix, SequenceExample { map<string, FeatureList>
\* feature_lists = 2 }: every map entry directly on field 2, no FeatureLists.
EncodeFlattened(map) ==
  Concat([n \in 1..Len(map) |-> LenDelim(2, EncodeMapEntry(map[n]))])

\* ---------------------------------------------------------- wire decoding

\* Reader: the index of the last byte of the varint that starts at pos.
RECURSIVE VarintEnd(_, _)
VarintEnd(b, pos) ==
  IF pos >= Len(b) \/ b[pos] < 128 THEN pos ELSE VarintEnd(b, pos + 1)

\* Reader.uint32: the unsigned value of the varint in b[pos..end].
RECURSIVE Unsigned(_, _, _)
Unsigned(b, pos, end) ==
  IF pos > end THEN 0 ELSE (b[pos] % 128) + 128 * Unsigned(b, pos + 1, end)

\* The value of the complemented low 63 bits of a ten-byte varint.
RECURSIVE Complement(_, _, _)
Complement(b, pos, end) ==
  IF pos > end THEN 0
  ELSE (127 - (b[pos] % 128)) + 128 * Complement(b, pos + 1, end)

\* Reader.int64: ten bytes with the 64th bit set are a negative number.
DecodeInt64(b, pos, end) ==
  IF end - pos = 9 /\ b[end] % 2 = 1
    THEN -(Complement(b, pos, end - 1)) - 1
    ELSE Unsigned(b, pos, end)

\* The fields of one message, in wire order: [field, wire, payload].  The
\* payload of a varint field is its bytes.
RECURSIVE Fields(_, _)
Fields(b, pos) ==
  IF pos > Len(b) THEN <<>>
  ELSE LET te == VarintEnd(b, pos)
           tag == Unsigned(b, pos, te)
           wire == tag % 8
           le == VarintEnd(b, te + 1)
           n == IF wire = 2 THEN Unsigned(b, te + 1, le)
                ELSE IF wire = 5 THEN 4
                ELSE IF wire = 1 THEN 8
                ELSE le - te
           from == IF wire = 2 THEN le + 1 ELSE te + 1
       IN <<[field |-> tag \div 8, wire |-> wire,
             payload |-> SubSeq(b, from, from + n - 1)]>>
            \o Fields(b, from + n)

FieldsOf(b, field) == SelectSeq(Fields(b, 1), LAMBDA f : f.field = field)

Payloads(fs) == [n \in 1..Len(fs) |-> fs[n].payload]

\* Buffer.toString('utf8') / Reader.string: a byte that does not start a
\* complete sequence reads as U+FFFD.
IsContinuation(b, n) == n <= Len(b) /\ b[n] >= 128 /\ b[n] < 192

RECURSIVE UTF8Decode(_)
UTF8Decode(b) ==
  IF b = <<>> THEN <<>>
  ELSE IF b[1] < 128 THEN <<b[1]>> \o UTF8Decode(SubSeq(b, 2, Len(b)))
  ELSE IF b[1] >= 192 /\ b[1] < 224 /\ IsContinuation(b, 2)
    THEN <<(b[1] - 192) * 64 + (b[2] - 128)>> \o UTF8Decode(SubSeq(b, 3, Len(b)))
  ELSE IF b[1] >= 224 /\ b[1] < 240 /\ IsContinuation(b, 2) /\ IsContinuation(b, 3)
    THEN <<(b[1] - 224) * 4096 + (b[2] - 128) * 64 + (b[3] - 128)>>
           \o UTF8Decode(SubSeq(b, 4, Len(b)))
  ELSE IF b[1] >= 240 /\ b[1] < 248 /\ IsContinuation(b, 2)
            /\ IsContinuation(b, 3) /\ IsContinuation(b, 4)
    THEN <<(b[1] - 240) * 262144 + (b[2] - 128) * 4096
             + (b[3] - 128) * 64 + (b[4] - 128)>>
           \o UTF8Decode(SubSeq(b, 5, Len(b)))
  ELSE <<65533>> \o UTF8Decode(SubSeq(b, 2, Len(b)))

DecodeBytesList(b) == [value |-> Payloads(FieldsOf(b, 1))]

\* The varints packed in b, from pos on.
RECURSIVE PackedInt64(_, _)
PackedInt64(b, pos) ==
  IF pos > Len(b) THEN <<>>
  ELSE LET end == VarintEnd(b, pos)
       IN <<DecodeInt64(b, pos, end)>> \o PackedInt64(b, end + 1)

DecodeInt64List(b) ==
  LET fs == FieldsOf(b, 1)
  IN [value |-> Concat([n \in 1..Len(fs) |-> PackedInt64(fs[n].payload, 1)])]

\* The single-precision values packed in b, each as its four bytes.
RECURSIVE PackedFloat(_)
PackedFloat(b) ==
  IF Len(b) < 4 THEN <<>>
  ELSE <<SubSeq(b, 1, 4)>> \o PackedFloat(SubSeq(b, 5, Len(b)))

DecodeFloatList(b) ==
  LET fs == FieldsOf(b, 1)
  IN [value |-> Concat([n \in 1..Len(fs) |-> PackedFloat(fs[n].payload)])]

KindNames == <<"bytesList", "floatList", "int64List">>

\* The Feature holds every member of the oneof that is on the wire.
DecodeFeature(b) ==
  LET fs == Fields(b, 1)
      last(k) == CHOOSE n \in 1..Len(fs) :
                   /\ fs[n].field = k
                   /\ \A j \in 1..Len(fs) : fs[j].field = k => j <= n
      seen == {k \in 1..3 : \E n \in 1..Len(fs) : fs[n].field = k}
  IN [name \in {KindNames[k] : k \in seen} |->
        IF name = "bytesList" THEN DecodeBytesList(fs[last(1)].payload)
        ELSE IF name = "floatList" THEN DecodeFloatList(fs[last(2)].payload)
        ELSE DecodeInt64List(fs[last(3)].payload)]

DecodeFeatureList(b) ==
  LET fs == FieldsOf(b, 1)
  IN [feature |-> [n \in 1..Len(fs) |-> DecodeFeature(fs[n].payload)]]

\* An entry of the map: the last key and the last value on the wire, the
\* defaults for those that are not there.
DecodeMapEntry(b) ==
  LET keys == FieldsOf(b, 1)
      values == FieldsOf(b, 2)
  IN [key |-> IF keys = <<>> THEN <<>> ELSE UTF8Decode(keys[Len(keys)].payload),
      value |-> IF values = <<>> THEN [feature |-> <<>>]
                ELSE DecodeFeatureList(values[Len(values)].payload)]

\* The entries in wire order (no key is written twice).
DecodeFeatureLists(b) ==
  LET fs == FieldsOf(b, 1)
  IN [featureList |-> [n \in 1..Len(fs) |-> DecodeMapEntry(fs[n].payload)]]

\* SequenceExample.decode: a field that is not on the wire stays null, a
\* message field met again replaces the earlier one.
NullMessage == [isNull |-> TRUE]

DecodeSequenceExample(b) ==
  LET fs == FieldsOf(b, 2)
  IN IF fs = <<>> THEN [featureLists |-> NullMessage]
     ELSE [featureLists |-> DecodeFeatureLists(fs[Len(fs)].payload)]

\* ------------------------------------------------------------------ toHex

HexDigits == <<"0", "1", "2", "3", "4", "5", "6", "7",
               "8", "9", "a", "b", "c", "d", "e", "f">>

\* Digits as Number.prototype.toString(16) gives them: no leading zero.
toHex_noPadding(buffer) ==
  Concat([n \in 1..Len(buffer) |->
            IF buffer[n] < 16 THEN <<HexDigits[buffer[n] + 1]>>
            ELSE <<HexDigits[(buffer[n] \div 16) + 1], HexDigits[(buffer[n] % 16) + 1]>>])

toHex(buffer) ==
  Concat([n \in 1..Len(buffer) |->
            <<HexDigits[(buffer[n] \div 16) + 1], HexDigits[(buffer[n] % 16) + 1]>>])

\* Longest buffer handed to toHex.
MaxBufferLen == 3

\* The byte values the buffers are made of.
ByteSet == {0, 9, 18, 28, 160, 255}

RECURSIVE BuffersUpTo(_)
BuffersUpTo(n) ==
  IF n = 0 THEN {<<>>} ELSE BuffersUpTo(n - 1) \cup SeqsOfLen(ByteSet, n)

VARIABLES
  hexBuffer,         \* the argument of toHex
  hex,               \* what toHex returned
  calls,             \* the predict calls of one batchPredict, by position
  rpc,               \* one prediction request, from its client to the transport
  cluster,           \* the Scylla cluster: what is reachable and what exists
  client,            \* ScyllaClient's this.client: null or the driver client
  preparedStatements,\* the names this.preparedStatements holds
  connectCall,       \* the call of connect(): where it stands
  lookups,           \* the lookups of the batch, by position in gaids
  batch,             \* the call of batchGetHistoricalFeatures
  ingress,           \* one call of makeIngressRequest
  historical,        \* one call of SimpleInferenceClient.getHistoricalFeatures
  scoring,           \* one run of scoreAllExamples
  pipeline,          \* one run of runInferencePipeline or runBatchInference
  lifecycle          \* the calls made on one ScyllaClient and its driver clients

hexVars == <<hexBuffer, hex>>

NoHex == [returned |-> FALSE]

\* No call of toHex is under way.
HexIdle == hexBuffer = <<>> /\ hex = NoHex

\* --------------------------------------------------- buildSequenceExample

VARIABLES
  featureListsData,  \* the argument, as Object.entries lists it
  pc,                \* "load", "loop", "encode", "returned", "threw"
  loadSyncCalls,     \* reads of proto/example.proto from disk so far
  done,              \* entries of the argument the for loop has handled
  featureListMap,    \* the call's featureListMap, in insertion order
  result,            \* what the call returned
  error,             \* what the call threw
  previous           \* the call before this one, for a comparison of two calls

builderVars ==
  <<featureListsData, pc, loadSyncCalls, done, featureListMap, result, error,
    previous>>

\* The state outside buildSequenceExample.
\* No batchPredict is under way.
CallsIdle == calls = <<>>

\* No prediction request is under way.
RpcIdle == rpc = [stage |-> "idle"]

scyllaVars ==
  <<cluster, client, preparedStatements, connectCall, lookups, batch>>

NullClient == [null |-> TRUE]

\* A ScyllaClient as its constructor leaves it, and no call made.
ScyllaIdle ==
  /\ cluster = [reachable |-> FALSE, keyspace |-> FALSE, table |-> FALSE]
  /\ client = NullClient
  /\ preparedStatements = {}
  /\ connectCall = [pc |-> "idle", calls |-> 0]
  /\ lookups = <<>>
  /\ batch = [stage |-> "idle"]

clientVars == <<ingress, historical, scoring, pipeline, lifecycle>>

\* No call of the inference clients is under way.
ClientsIdle ==
  /\ ingress = [pc |-> "idle"]
  /\ historical = [pc |-> "idle"]
  /\ scoring = [pc |-> "idle"]
  /\ pipeline = [pc |-> "idle"]
  /\ lifecycle = [pc |-> "idle"]

outside == <<hexVars, calls, rpc, scyllaVars, clientVars>>

OutsideIdle == HexIdle /\ CallsIdle /\ RpcIdle /\ ScyllaIdle /\ ClientsIdle

vars == <<builderVars, outside>>

\* The callback of values.map: the Feature for one value.
IsSupported(value) ==
  \/ value.typeof = "string"
  \/ value.typeof = "number"
  \/ (value.typeof = "object" /\ value.isBuffer)

NumberIsInteger(value) == value.num % value.den = 0

\* Buffer.from(value, 'latin1') in place of 'utf-8': one byte per character.
FeatureOf_latin1(value) ==
  IF value.typeof = "string"
    THEN [bytesList |-> [value |-> <<[n \in 1..Len(value.cp) |-> value.cp[n] % 256]>>]]
  ELSE IF value.typeof = "number"
    THEN IF NumberIsInteger(value)
           THEN [int64List |-> [value |-> <<value>>]]
           ELSE [floatList |-> [value |-> <<value>>]]
  ELSE [bytesList |-> [value |-> <<BufferBytes(value)>>]]

\* No Number.isInteger test: every number becomes an int64List.
FeatureOf_numbersAsInt(value) ==
  IF value.typeof = "string"
    THEN [bytesList |-> [value |-> <<UTF8(value.cp)>>]]
  ELSE IF value.typeof = "number"
    THEN [int64List |-> [value |-> <<value>>]]
  ELSE [bytesList |-> [value |-> <<BufferBytes(value)>>]]

\* The float branch returns an object with no member of the oneof.
FeatureOf_noFloatList(value) ==
  IF value.typeof = "string"
    THEN [bytesList |-> [value |-> <<UTF8(value.cp)>>]]
  ELSE IF value.typeof = "number"
    THEN IF NumberIsInteger(value)
           THEN [int64List |-> [value |-> <<value>>]]
           ELSE [kind \in {} |-> <<>>]
  ELSE [bytesList |-> [value |-> <<BufferBytes(value)>>]]

FeatureOf(value) ==
  IF value.typeof = "string"
    THEN [bytesList |-> [value |-> <<UTF8(value.cp)>>]]
  ELSE IF value.typeof = "number"
    THEN IF NumberIsInteger(value)
           THEN [int64List |-> [value |-> <<value>>]]
           ELSE [floatList |-> [value |-> <<value>>]]
  ELSE [bytesList |-> [value |-> <<BufferBytes(value)>>]]

\* One features array shared by all keys (declared outside the for loop).
MapValues_sharedArray(items) ==
  (IF featureListMap = <<>> THEN <<>>
   ELSE featureListMap[Len(featureListMap)].value.feature)
    \o [n \in 1..Len(items) |-> FeatureOf(items[n])]

\* values.map(...) over one key's array: the features, in order.
MapValues(items) == [n \in 1..Len(items) |-> FeatureOf(items[n])]

\* The first value of the array the callback throws on.
FirstUnsupported(items) ==
  LET bad == {n \in 1..Len(items) : ~IsSupported(items[n])}
  IN CHOOSE n \in bad : \A k \in bad : n <= k

NoError == [thrown |-> FALSE]
NoResult == [returned |-> FALSE]

\* The message without the key.
UnsupportedValueType_noKey(key, type) ==
  [thrown |-> TRUE, name |-> "Error", what |-> "Unsupported value type",
   key |-> <<>>, type |-> type]

UnsupportedValueType(key, type) ==
  [thrown |-> TRUE, name |-> "Error", what |-> "Unsupported value type",
   key |-> key, type |-> type]

\* values.map is not a function
MapIsNotAFunction ==
  [thrown |-> TRUE, name |-> "TypeError", what |-> "values.map is not a function"]

NoPrevious == [exists |-> FALSE]

Init ==
  /\ featureListsData \in FeatureMaps
  /\ pc = "load"
  /\ loadSyncCalls = 0
  /\ done = 0
  /\ featureListMap = <<>>
  /\ result = NoResult
  /\ error = NoError
  /\ previous = NoPrevious
  /\ OutsideIdle

\* loadExampleProto(): protobuf.loadSync reads and parses the schema file.
loadExampleProto ==
  /\ pc = "load"
  /\ pc' = "loop"
  /\ loadSyncCalls' = loadSyncCalls + 1
  /\ UNCHANGED <<featureListsData, done, featureListMap, result, error,
                 previous, outside>>

\* One iteration of the for loop (lines 48-89), a throw included.
LoopStep ==
  /\ pc = "loop"
  /\ done < Len(featureListsData)
  /\ LET entry == featureListsData[done + 1]
     IN IF ~entry.values.isArray
          THEN /\ pc' = "threw"
               /\ error' = MapIsNotAFunction
               /\ UNCHANGED <<done, featureListMap>>
        ELSE IF \E n \in 1..Len(entry.values.items) :
                  ~IsSupported(entry.values.items[n])
          THEN /\ pc' = "threw"
               /\ error' = UnsupportedValueType(
                    entry.key,
                    entry.values.items[FirstUnsupported(entry.values.items)].typeof)
               /\ UNCHANGED <<done, featureListMap>>
        ELSE /\ featureListMap' =
                  Append(featureListMap,
                         [key |-> entry.key,
                          value |-> [feature |-> MapValues(entry.values.items)]])
             /\ done' = done + 1
             /\ UNCHANGED <<pc, error>>
  /\ UNCHANGED <<featureListsData, loadSyncCalls, result, previous, outside>>

\* The loop is over.
LoopExit ==
  /\ pc = "loop"
  /\ done = Len(featureListsData)
  /\ pc' = "encode"
  /\ UNCHANGED <<featureListsData, loadSyncCalls, done, featureListMap, result,
                 error, previous, outside>>

\* snake_case property names, which protobufjs does not know.
CreateMessage_snakeCase(map) == [feature_lists |-> [feature_list |-> map]]

\* SequenceExample.create(...), encode(...).finish() and the return.
CreateMessage(map) == [featureLists |-> [featureList |-> map]]

EncodeAndReturn ==
  /\ pc = "encode"
  /\ result' = [returned |-> TRUE,
                buffer |-> EncodeSequenceExample(CreateMessage(featureListMap))]
  /\ pc' = "returned"
  /\ UNCHANGED <<featureListsData, loadSyncCalls, done, featureListMap, error,
                 previous, outside>>

\* The orders in which the same properties can have been inserted.
Reorderings(m) ==
  {[n \in 1..Len(m) |-> m[p[n]]] : p \in Permutations(1..Len(m))}

\* A second call, on an object holding the same properties.
CallAgain ==
  /\ pc = "returned"
  /\ ~previous.exists
  /\ previous' = [exists |-> TRUE, featureListsData |-> featureListsData,
                  buffer |-> result.buffer]
  /\ featureListsData' \in Reorderings(featureListsData)
  /\ pc' = "load"
  /\ done' = 0
  /\ featureListMap' = <<>>
  /\ result' = NoResult
  /\ error' = NoError
  /\ UNCHANGED <<loadSyncCalls, outside>>

Next ==
  loadExampleProto \/ LoopStep \/ LoopExit \/ EncodeAndReturn \/ CallAgain

Spec == Init /\ [][Next]_vars

\* No call of buildSequenceExample is under way.
BuilderIdle ==
  /\ featureListsData = <<>>
  /\ pc = "idle"
  /\ loadSyncCalls = 0
  /\ done = 0
  /\ featureListMap = <<>>
  /\ result = NoResult
  /\ error = NoError
  /\ previous = NoPrevious

\* ------------------------------------------------------- toHex, on its own

HexInit ==
  /\ hexBuffer \in BuffersUpTo(MaxBufferLen)
  /\ hex = NoHex
  /\ BuilderIdle
  /\ CallsIdle
  /\ RpcIdle
  /\ ScyllaIdle
  /\ ClientsIdle

\* hexBuffer.toString('hex') and the return.
ToHexReturn ==
  /\ ~hex.returned
  /\ hex' = [returned |-> TRUE, string |-> toHex(hexBuffer)]
  /\ UNCHANGED <<hexBuffer, builderVars, calls, rpc, scyllaVars, clientVars>>

HexNext == ToHexReturn

HexSpec == HexInit /\ [][HexNext]_vars

\* ------------------------------------------------------------------ claims

Returned == pc = "returned"
Threw == pc = "threw"

\* Where the call's output is read back: SequenceExample.decode of the bytes.
Decoded == DecodeSequenceExample(result.buffer).featureLists.featureList

AllArrays(m) == \A j \in 1..Len(m) : m[j].values.isArray

\* {"ad_type": ["SC_CPCV_1"]}
SingleFeatureInput ==
  <<[key |-> Key_ad_type, values |-> ArrayOf(<<StringValue(Text_SC_CPCV_1)>>)]>>

\* 121c0a1a0a0761645f74797065120f0a0d0a0b0a0953435f435043565f31
SingleFeatureHex ==
  <<
     "1", "2", "1", "c", "0", "a", "1", "a", "0", "a", "0", "7",
     "6", "1", "6", "4", "5", "f", "7", "4", "7", "9", "7", "0",
     "6", "5", "1", "2", "0", "f", "0", "a", "0", "d", "0", "a",
     "0", "b", "0", "a", "0", "9", "5", "3", "4", "3", "5", "f",
     "4", "3", "5", "0", "4", "3", "5", "6", "5", "f", "3", "1" >>

\* C1: the call on {"ad_type": ["SC_CPCV_1"]} returns exactly the 30 bytes
\* whose toHex is 121c0a1a...5f31.
C1_SingleFeatureBytes ==
  (Returned /\ featureListsData = SingleFeatureInput)
    => /\ Len(result.buffer) = 30
       /\ toHex(result.buffer) = SingleFeatureHex

C1_Witness ==
  /\ Returned
  /\ featureListsData = SingleFeatureInput
  /\ ~previous.exists
  /\ Len(toHex(result.buffer)) = 60

\* The kind the claim gives a value of a supported runtime type.
ClaimedKind(v) ==
  IF v.typeof = "string" THEN "bytesList"
  ELSE IF v.typeof = "number"
    THEN (IF (v.num % v.den) = 0 THEN "int64List" ELSE "floatList")
  ELSE "bytesList"

\* The bytes the claim gives a byte-string record.
ClaimedBytes(v) == IF v.typeof = "string" THEN UTF8(v.cp) ELSE BufferBytes(v)

HasUnsupported(m) ==
  \E j \in 1..Len(m) :
    /\ m[j].values.isArray
    /\ \E n \in 1..Len(m[j].values.items) : ~IsSupported(m[j].values.items[n])

\* C3: a value that is not text, number or blob makes the call fail with the
\* unsupported-value-type error, which names the key and the type observed, and
\* no bytes are returned.  In every map, an unsupported-value-type error names
\* the key the loop stands at and the typeof of the first such value of that
\* key, a call that returned met no such value, and only a call that returned
\* holds bytes; in a map whose values are all lists the loop does not get past
\* the first key with such a value: it throws this error there.
C3_UnsupportedValueFails ==
  /\ (Threw /\ error.what = "Unsupported value type") =>
       LET entry == featureListsData[done + 1]
           bad == {n \in 1..Len(entry.values.items) :
                     entry.values.items[n].typeof \notin {"string", "number"}
                       /\ ~entry.values.items[n].isBuffer}
       IN /\ error.key = entry.key
          /\ bad # {}
          /\ \E n \in bad : /\ \A k \in bad : n <= k
                            /\ error.type = entry.values.items[n].typeof
          /\ \A j \in 1..done : ~HasUnsupported(<<featureListsData[j]>>)
  /\ Returned => ~HasUnsupported(featureListsData)
  /\ ~Returned => result = NoResult
  /\ (AllArrays(featureListsData) /\ HasUnsupported(featureListsData)) =>
       LET first == CHOOSE j \in 1..Len(featureListsData) :
                      /\ HasUnsupported(<<featureListsData[j]>>)
                      /\ \A k \in 1..(j - 1) : ~HasUnsupported(<<featureListsData[k]>>)
       IN /\ pc \in {"load", "loop", "threw"}
          /\ pc = "load" => done = 0
          /\ pc = "loop" => done < first
          /\ pc = "threw" => (done = first - 1 /\ error.what = "Unsupported value type")

C3_Witness ==
  /\ Threw
  /\ done = 1
  /\ featureListsData[2] = [key |-> Key_bad, values |-> ArrayOf(<<ObjectValue>>)]
  /\ error.key = Key_bad
  /\ error.type = "object"
  /\ result = NoResult

\* C4: a call either returns bytes or fails with the unsupported-value-type
\* error, also when the value of a key is a scalar and not a list; nothing
\* else is thrown.
C4_OnlyUnsupportedValueType ==
  Threw => error.what = "Unsupported value type"

\* {"advertiser_counter_v2": "<joined string>", ...}: the value of the first
\* key is text, not a list, and the call threw a TypeError.
C4_Witness ==
  /\ Threw
  /\ ~featureListsData[1].values.isArray
  /\ featureListsData[1].values.scalar.typeof = "string"
  /\ error.name = "TypeError"
  /\ result = NoResult

\* What a record decoded from the output holds, whatever its kind.
RecordValues(f) ==
  Concat([k \in 1..3 |-> IF KindNames[k] \in DOMAIN f
                           THEN f[KindNames[k]].value ELSE <<>>])

\* What the claim expects a record to hold for an input value: the bytes, the
\* integer, or the four bytes of the single-precision number.
ClaimedValue(v) ==
  IF ClaimedKind(v) = "bytesList" THEN ClaimedBytes(v)
  ELSE IF ClaimedKind(v) = "int64List" THEN v.num \div v.den
  ELSE Float32LE(v.num, v.den)

\* C5: the FeatureList of a key with value list v has Len(v) records, and
\* record i holds exactly one value, the encoding of v[i].
C5_OneRecordPerValue ==
  Returned =>
    LET decoded == Decoded
    IN
    /\ Len(decoded) = Len(featureListsData)
    /\ \A j \in 1..Len(featureListsData) :
         LET v == featureListsData[j].values.items
             records == decoded[j].value.feature
         IN /\ decoded[j].key = featureListsData[j].key
            /\ Len(records) = Len(v)
            /\ \A i \in 1..Len(v) :
                 RecordValues(records[i]) = <<ClaimedValue(v[i])>>

C5_Witness ==
  /\ Returned
  /\ Len(featureListsData) = 1
  /\ featureListsData[1].values =
       ArrayOf(<<StringValue(Text_SC_CPCV_1), StringValue(Text_multibyte)>>)
  /\ Len(Decoded[1].value.feature) = 2
  /\ Decoded[1].value.feature[1].bytesList.value[1] = UTF8(Text_SC_CPCV_1)

\* Text and integers only, in lists.
WellFormed(m) ==
  \A j \in 1..Len(m) :
    /\ m[j].values.isArray
    /\ \A n \in 1..Len(m[j].values.items) :
         LET v == m[j].values.items[n]
         IN \/ v.typeof = "string"
            \/ (v.typeof = "number" /\ v.num % v.den = 0)

\* What a reader gets back from a decoded record: text from a byte string,
\* the integer from an int record.
ReadBack(f) ==
  IF "bytesList" \in DOMAIN f
    THEN [n \in 1..Len(f.bytesList.value) |->
            [typeof |-> "string", cp |-> UTF8Decode(f.bytesList.value[n])]]
  ELSE IF "int64List" \in DOMAIN f
    THEN [n \in 1..Len(f.int64List.value) |->
            [typeof |-> "number", num |-> f.int64List.value[n], den |-> 1]]
  ELSE <<[typeof |-> "float"]>>

\* C6: round trip.  Decoding the output of a call on a well-formed map (lists
\* of text and integers) gives the same feature names, for every name as many
\* values in the same order, and values equal to the inputs.
C6_RoundTrip ==
  (Returned /\ WellFormed(featureListsData)) =>
    LET decoded == Decoded
    IN
    /\ {decoded[j].key : j \in 1..Len(decoded)}
         = {featureListsData[j].key : j \in 1..Len(featureListsData)}
    /\ Len(decoded) = Len(featureListsData)
    /\ \A j \in 1..Len(featureListsData) :
         \E d \in 1..Len(decoded) :
           /\ decoded[d].key = featureListsData[j].key
           /\ Concat([i \in 1..Len(decoded[d].value.feature) |->
                        ReadBack(decoded[d].value.feature[i])])
                = [i \in 1..Len(featureListsData[j].values.items) |->
                     LET v == featureListsData[j].values.items[i]
                     IN IF v.typeof = "string" THEN v
                        ELSE [typeof |-> "number", num |-> v.num \div v.den, den |-> 1]]

C6_Witness ==
  /\ Returned
  /\ WellFormed(featureListsData)
  /\ Len(featureListsData) = 1
  /\ featureListsData[1].values =
       ArrayOf(<<StringValue(Text_multibyte), NumberValue(-1, 1)>>)
  /\ ReadBack(Decoded[1].value.feature[1]) = <<StringValue(Text_multibyte)>>
  /\ ReadBack(Decoded[1].value.feature[2]) = <<NumberValue(-1, 1)>>

\* The map entries of an output, each as its bytes, in wire order.
EntriesOf(buffer) ==
  IF FieldsOf(buffer, 2) = <<>> THEN <<>>
  ELSE Payloads(FieldsOf(FieldsOf(buffer, 2)[1].payload, 1))

\* C7: two calls on the same feature map (the same properties, inserted in the
\* same or in another order) give outputs that are identical or differ only
\* by a permutation of whole map entries: the bytes of a key's entry, its
\* FeatureList with the order of its values, are the same in both, and a map
\* listed in the same order gives the same bytes.
C7_DeterministicUpToEntryOrder ==
  (Returned /\ previous.exists) =>
    LET now == EntriesOf(result.buffer)
        before == EntriesOf(previous.buffer)
    IN /\ Len(now) = Len(before)
       /\ Len(result.buffer) = Len(previous.buffer)
       /\ \E p \in Permutations(1..Len(now)) :
            \A n \in 1..Len(now) : now[n] = before[p[n]]
       /\ \A a \in 1..Len(now), b \in 1..Len(before) :
            FieldsOf(now[a], 1) = FieldsOf(before[b], 1)
              => FieldsOf(now[a], 2) = FieldsOf(before[b], 2)
       /\ featureListsData = previous.featureListsData
            => result.buffer = previous.buffer

C7_Witness ==
  /\ Returned
  /\ previous.exists
  /\ Len(featureListsData) = 2
  /\ featureListsData # previous.featureListsData
  /\ result.buffer # previous.buffer
  /\ EntriesOf(result.buffer)[1] = EntriesOf(previous.buffer)[2]

\* C8: the output for a non-empty map is longer than the flattened encoding
\* (the entries directly on field 2) by exactly one length-delimited header:
\* the tag byte 0x12 and the varint of the length of what it wraps; that is
\* 2 bytes whenever the wrapped map is shorter than 128 bytes, as for
\* {"ad_type": ["SC_CPCV_1"]} (30 bytes against 28).
C8_WrapperAddsOneHeader ==
  (Returned /\ featureListsData # <<>>) =>
    LET buffer == result.buffer
        flat == EncodeFlattened(featureListMap)
        le == VarintEnd(buffer, 2)
    IN /\ Len(buffer) > Len(flat)
       /\ buffer[1] = 18
       /\ Unsigned(buffer, 2, le) = Len(buffer) - le
       /\ Len(buffer) - Len(flat) = le
       /\ Len(flat) < 128 => Len(buffer) - Len(flat) = 2
       /\ featureListsData = SingleFeatureInput
            => (Len(buffer) = 30 /\ Len(flat) = 28)

\* A wrapped map of 128 bytes or more: the header is three bytes.
C8_Witness ==
  /\ Returned
  /\ Len(featureListsData) = 1
  /\ featureListsData[1].values = ArrayOf(<<LongBlob>>)
  /\ Len(result.buffer) - Len(EncodeFlattened(featureListMap)) = 3

\* A list holding values of more than one kind.
MixedKinds(values) ==
  /\ values.isArray
  /\ \E a, b \in 1..Len(values.items) :
       /\ IsSupported(values.items[a])
       /\ IsSupported(values.items[b])
       /\ ClaimedKind(values.items[a]) # ClaimedKind(values.items[b])

\* C9: a list with values of mixed kinds under one key makes the call fail
\* (different kinds under different keys are accepted).
C9_MixedKindsFail ==
  (\E j \in 1..Len(featureListsData) : MixedKinds(featureListsData[j].values))
    => ~Returned

\* {"k": [42, 9.99]} returned bytes: an int record and a float record under
\* the one key.
C9_Witness ==
  /\ Returned
  /\ Len(featureListsData) = 1
  /\ featureListsData[1].values = ArrayOf(<<NumberValue(42, 1), NumberValue(999, 100)>>)
  /\ DOMAIN Decoded[1].value.feature[1] = {"int64List"}
  /\ DOMAIN Decoded[1].value.feature[2] = {"floatList"}

\* C10: every Feature of a message the call builds has exactly one of the
\* three kinds set: in the message as the loop builds it, and in the bytes
\* returned.
C10_ExactlyOneKind ==
  /\ \A j \in 1..Len(featureListMap) :
       \A n \in 1..Len(featureListMap[j].value.feature) :
         LET f == featureListMap[j].value.feature[n]
         IN /\ DOMAIN f \subseteq {"bytesList", "floatList", "int64List"}
            /\ Cardinality(DOMAIN f) = 1
  /\ Returned =>
       LET decoded == Decoded
       IN \A j \in 1..Len(decoded) :
            \A n \in 1..Len(decoded[j].value.feature) :
              Cardinality(DOMAIN decoded[j].value.feature[n]) = 1

C10_Witness ==
  /\ Returned
  /\ Len(featureListsData) = 2
  /\ featureListsData[1].values = ArrayOf(<<NumberValue(999, 100)>>)
  /\ featureListsData[2].values = ArrayOf(<<StringValue(Text_SC_CPCV_1)>>)
  /\ DOMAIN featureListMap[1].value.feature[1] = {"floatList"}
  /\ DOMAIN Decoded[2].value.feature[1] = {"bytesList"}

\* C14: the empty feature map {} does not make the call fail: the call goes
\* from the schema load through the loop, which it leaves at once, to the
\* encoding, throws nothing and returns the two bytes 12 00 of an envelope
\* whose list wrapper is there and empty.
C14_EmptyMapReturns ==
  featureListsData = <<>> =>
    /\ ~Threw
    /\ error = NoError
    /\ pc \in {"load", "loop", "encode", "returned"}
    /\ pc # "returned" => result = NoResult
    /\ pc = "returned" => result = [returned |-> TRUE, buffer |-> <<18, 0>>]

C14_Witness ==
  /\ featureListsData = <<>>
  /\ Returned
  /\ featureListMap = <<>>
  /\ result.buffer = <<18, 0>>
  /\ error = NoError

\* ------------------------------- concurrent callers of buildSequenceExample

\* Calls of predict that one batchPredict starts.
NumCallers == 2

\* The feature maps the callers pass: every value a list of supported values.
CallerInputs ==
  { <<>>,
    <<[key |-> Key_ad_type, values |-> ArrayOf(<<StringValue(Text_SC_CPCV_1)>>)]>>,
    <<[key |-> Key_userid, values |-> ArrayOf(<<NumberValue(42, 1)>>)]>>,
    <<[key |-> Key_userid, values |-> ArrayOf(<<NumberValue(999, 100)>>)],
      [key |-> Key_ad_type, values |-> ArrayOf(<<StringValue(Text_multibyte)>>)]>> }

\* featureListMap[key] = value: an own property keeps its place, a new one
\* goes last.
SetProperty(map, key, value) ==
  IF \E n \in 1..Len(map) : map[n].key = key
  THEN [n \in 1..Len(map) |->
          IF map[n].key = key THEN [key |-> key, value |-> value] ELSE map[n]]
  ELSE Append(map, [key |-> key, value |-> value])

\* The map a call starts from, were featureListMap a variable of the module
\* instead of the call: what the call before left in it.
NewFeatureListMap_moduleLevel == featureListMap

\* const featureListMap = {} (line 46): a new object in each call.
NewFeatureListMap == <<>>

\* The for loop over a map of lists of supported values, from entry n on.
RECURSIVE ForEntries(_, _, _)
ForEntries(data, n, map) ==
  IF n > Len(data) THEN map
  ELSE ForEntries(data, n + 1,
                  SetProperty(map, data[n].key,
                              [feature |-> MapValues(data[n].values.items)]))

\* One whole call, which runs to its end without giving way: the map it
\* built and the buffer it returned.
buildSequenceExample(data) ==
  LET map == ForEntries(data, 1, NewFeatureListMap)
  IN [featureListMap |-> map,
      buffer |-> EncodeSequenceExample(CreateMessage(map))]

BatchInit ==
  /\ calls \in [1..NumCallers ->
                  {[stage |-> "lookup", features |-> m] : m \in CallerInputs}]
  /\ BuilderIdle
  /\ HexIdle
  /\ RpcIdle
  /\ ScyllaIdle
  /\ ClientsIdle

\* The Scylla lookup of call c completes (predict, after its first await):
\* with an error the call is rejected, otherwise the call goes on to
\* buildSequenceExample and starts its gRPC request.
ScyllaCallback(c) ==
  /\ calls[c].stage = "lookup"
  /\ \/ /\ calls' = [calls EXCEPT ![c].stage = "rejected"]
        /\ UNCHANGED builderVars
     \/ LET call == buildSequenceExample(calls[c].features)
        IN /\ calls' = [calls EXCEPT ![c] =
                          [stage |-> "request", features |-> calls[c].features,
                           serializedExample |-> call.buffer]]
           /\ featureListsData' = calls[c].features
           /\ pc' = "returned"
           /\ loadSyncCalls' = loadSyncCalls + 1
           /\ done' = Len(calls[c].features)
           /\ featureListMap' = call.featureListMap
           /\ result' = [returned |-> TRUE, buffer |-> call.buffer]
           /\ UNCHANGED <<error, previous>>
  /\ UNCHANGED <<hexVars, rpc, scyllaVars, clientVars>>

\* The gRPC request of call c completes: with a response or with an error.
GrpcCallback(c) ==
  /\ calls[c].stage = "request"
  /\ \E outcome \in {"resolved", "rejected"} :
       calls' = [calls EXCEPT ![c].stage = outcome]
  /\ UNCHANGED <<builderVars, hexVars, rpc, scyllaVars, clientVars>>

BatchNext ==
  \E c \in 1..NumCallers : ScyllaCallback(c) \/ GrpcCallback(c)

BatchSpec == BatchInit /\ [][BatchNext]_vars

\* What buildSequenceExample returns for a map when no other call was made.
AloneBytes(data) ==
  EncodeSequenceExample(
    [featureLists |->
       [featureList |->
          [n \in 1..Len(data) |->
             [key |-> data[n].key,
              value |-> [feature |-> [k \in 1..Len(data[n].values.items) |->
                                        FeatureOf(data[n].values.items[k])]]]]]])

\* C13: with several calls under way, their Scylla and gRPC callbacks coming
\* in any order, every call holds the bytes it would have got alone, and the
\* map a call built holds the keys of its own argument and no others.
C13_ConcurrentCallsAsAlone ==
  /\ \A c \in 1..NumCallers :
       "serializedExample" \in DOMAIN calls[c] =>
          /\ calls[c].serializedExample = AloneBytes(calls[c].features)
          /\ LET fs == FieldsOf(calls[c].serializedExample, 2)
             IN Len(calls[c].features) > 0 =>
                  Len(FieldsOf(fs[1].payload, 1)) = Len(calls[c].features)
  /\ Returned =>
       /\ Len(featureListMap) = Len(featureListsData)
       /\ \A n \in 1..Len(featureListMap) :
            featureListMap[n].key = featureListsData[n].key

\* Two calls of different maps, the second built after the first and both
\* holding their own bytes while the first is still waiting for its reply.
C13_Witness ==
  /\ calls[1].stage = "request"
  /\ calls[2].stage = "resolved"
  /\ calls[1].features # calls[2].features
  /\ Len(calls[1].features) = 2
  /\ Len(calls[2].features) = 1
  /\ loadSyncCalls = 2
  /\ calls[1].serializedExample # calls[2].serializedExample

\* The value of a lowercase hexadecimal digit.
LowerHexValue ==
  [c \in {"0", "1", "2", "3", "4", "5", "6", "7", "8", "9",
          "a", "b", "c", "d", "e", "f"} |->
     CASE c = "0" -> 0 [] c = "1" -> 1 [] c = "2" -> 2 [] c = "3" -> 3
       [] c = "4" -> 4 [] c = "5" -> 5 [] c = "6" -> 6 [] c = "7" -> 7
       [] c = "8" -> 8 [] c = "9" -> 9 [] c = "a" -> 10 [] c = "b" -> 11
       [] c = "c" -> 12 [] c = "d" -> 13 [] c = "e" -> 14 [] c = "f" -> 15]

\* C11: toHex returns, for every buffer and the empty one too, 2 * len
\* lowercase hexadecimal digits and nothing else, the n-th pair of digits
\* being the value of the n-th byte; [] gives "" and [0x12, 0x1c] "121c".
C11_HexOfEveryBuffer ==
  hex.returned =>
    /\ Len(hex.string) = 2 * Len(hexBuffer)
    /\ \A n \in 1..Len(hex.string) : hex.string[n] \in DOMAIN LowerHexValue
    /\ \A n \in 1..Len(hexBuffer) :
         16 * LowerHexValue[hex.string[2 * n - 1]]
           + LowerHexValue[hex.string[2 * n]] = hexBuffer[n]
    /\ (hexBuffer = <<>> => hex.string = <<>>)
    /\ (hexBuffer = <<18, 28>> => hex.string = <<"1", "2", "1", "c">>)

C11_Witness ==
  /\ hex.returned
  /\ hexBuffer = <<9, 160, 255>>
  /\ hex.string = <<"0", "9", "a", "0", "f", "f">>

\* C12: a call does no input or output and reads and writes nothing but its
\* argument: no file is read in any call, the argument is the same map from
\* the start of a call to its end, and an object of the same properties gives
\* the same outcome in a later call.
C12_NoStateOutsideArgument ==
  /\ [](loadSyncCalls = 0)
  /\ [][pc \notin {"returned", "threw"} => featureListsData' = featureListsData]_vars
  /\ []((previous.exists /\ featureListsData = previous.featureListsData
          /\ Returned) => result.buffer = previous.buffer)

\* {"ad_type": ["SC_CPCV_1"]}: the call returned its 30 bytes having read the
\* schema file from disk, and a second call reads it again.
C12_Witness ==
  /\ Returned
  /\ previous.exists
  /\ featureListsData = SingleFeatureInput
  /\ loadSyncCalls = 2

\* ------------------------------------------------ the documented examples

Text_749603295 == <<55, 52, 57, 54, 48, 51, 50, 57, 53>>

\* key: [text], an entry of a feature map.
Text(key, cp) == [key |-> key, values |-> ArrayOf(<<StringValue(cp)>>)]

\* {'ad_type': ['SC_CPCV_1'], 'userid': ['749603295']}
TwoFeatureInput ==
  <<Text(Key_ad_type, Text_SC_CPCV_1), Text(Key_userid, Text_749603295)>>

\* The 14 features of the full example, ad_type to userid.
FullExample ==
  <<
     Text(Key_ad_type, Text_SC_CPCV_1),
     Text(<<97, 100, 115, 117, 117, 105, 100>>,
          <<48, 53, 51, 50, 97, 102, 98, 98, 45, 51, 99, 56, 53, 45, 52, 55, 55, 54, 45, 98, 53, 99, 54, 45, 100, 57, 48, 56, 97, 52, 55, 99, 49, 52, 52, 49>>),
     Text(<<97, 103, 101, 82, 97, 110, 103, 101>>,
          <<49, 56, 45, 50, 52>>),
     Text(<<99, 105, 116, 121>>,
          <<107, 111, 112, 112, 97, 108>>),
     Text(<<102, 101, 101, 100, 95, 102, 101, 116, 99, 104, 95, 99, 111, 117, 110, 116, 101, 114>>,
          <<49>>),
     Text(<<103, 101, 110, 100, 101, 114>>,
          <<70>>),
     Text(<<108, 97, 110, 103, 117, 97, 103, 101>>,
          <<116, 97, 109, 105, 108>>),
     Text(<<111, 115, 86, 101, 114, 115, 105, 111, 110>>,
          <<114, 101, 115, 116>>),
     Text(<<112, 104, 111, 110, 101, 67, 97, 114, 114, 105, 101, 114>>,
          <<105, 110, 100, 32, 97, 105, 114, 116, 101, 108>>),
     Text(<<112, 104, 111, 110, 101, 77, 111, 100, 101, 108>>,
          <<111, 112, 112, 111, 32, 99, 112, 104, 50, 54, 56, 49>>),
     Text(<<115, 111, 117, 114, 99, 101, 65, 112, 112>>,
          <<83, 67>>),
     Text(<<115, 116, 97, 116, 101>>,
          <<107, 97, 114, 110, 97, 116, 97, 107, 97>>),
     Text(<<116, 105, 109, 101>>,
          <<50, 48, 50, 53, 45, 49, 48, 45, 49, 48, 32, 50, 50, 58, 48, 50, 58, 50, 52>>),
     Text(Key_userid, Text_749603295)
  >>

\* Insertion orders of one map: each entry first in turn, and back to front.
Orders(m) ==
  {[n \in 1..Len(m) |-> m[((n + k - 1) % Len(m)) + 1]] : k \in 0..(Len(m) - 1)}
    \cup {[n \in 1..Len(m) |-> m[Len(m) + 1 - n]]}

DocumentedInputs == Orders(TwoFeatureInput) \cup Orders(FullExample)

FramingInit ==
  /\ featureListsData \in FeatureMaps \cup DocumentedInputs
  /\ pc = "load"
  /\ loadSyncCalls = 0
  /\ done = 0
  /\ featureListMap = <<>>
  /\ result = NoResult
  /\ error = NoError
  /\ previous = NoPrevious
  /\ OutsideIdle

\* One call of buildSequenceExample.
FramingNext == loadExampleProto \/ LoopStep \/ LoopExit \/ EncodeAndReturn

FramingSpec == FramingInit /\ [][FramingNext]_vars

\* The first n characters of a hex string.
HexStart(b, n) == SubSeq(toHex(SubSeq(b, 1, n)), 1, 2 * n)

\* C15: for {"ad_type": ["SC_CPCV_1"], "userid": ["749603295"]}, in either
\* order of the two entries, the hex of the returned bytes starts with 1299.
C15_TwoFeatureHexStart ==
  (Returned /\ featureListsData \in Orders(TwoFeatureInput)) =>
    HexStart(result.buffer, 2) = <<"1", "2", "9", "9">>

\* The two entries take 28 and 27 bytes: the returned 57 bytes start with
\* 12 37.
C15_Witness ==
  /\ Returned
  /\ featureListsData = TwoFeatureInput
  /\ Len(result.buffer) = 57
  /\ HexStart(result.buffer, 3) = <<"1", "2", "3", "7", "0", "a">>

DTYPE_STRING == 7

\* The clients that build the outer request with protobufjs.
Clients == {"makeIngressRequest", "makeInferenceRequest", "_makeGrpcRequest"}

ModelNames == {"dnb-model-baseline-v1", "dnb-model-conservative-v1"}

SignatureNames == {"serving_default", "predict"}

\* Serialized examples, as buildSequenceExample returns them.
SerializedExamples == {buildSequenceExample(m).buffer : m \in CallerInputs}

\* The fields of the messages by the names protobufjs gives them: those of
\* the .proto files in camelCase.
PredictRequestFields == {"modelSpec", "inputs", "outputFilter"}
ModelSpecFields == {"name", "version", "signatureName"}
TensorProtoFields == {"dtype", "tensorShape", "stringVal"}

\* Type.encode: a field is written when the object has a property of the
\* field's name; a property that names no field is passed over.
EncodeModelSpec(m) == [k \in DOMAIN m \cap ModelSpecFields |-> m[k]]

EncodeTensorProto(m) == [k \in DOMAIN m \cap TensorProtoFields |-> m[k]]

EncodePredictRequest(m) ==
  [k \in DOMAIN m \cap PredictRequestFields |->
     CASE k = "modelSpec" -> EncodeModelSpec(m[k])
       [] k = "inputs" -> [name \in DOMAIN m[k] |-> EncodeTensorProto(m[k][name])]
       [] OTHER -> m[k]]

\* The request object of client-ingress.js (lines 109-139).
IngressPayload(r) ==
  [modelSpec |-> [name |-> r.modelName, signatureName |-> r.signatureName],
   inputs |->
     IF r.serializedCommon = <<>>
     THEN [examples |-> [dtype |-> DTYPE_STRING,
                         tensorShape |-> [dim |-> <<[size |-> 1]>>],
                         stringVal |-> <<r.serializedExample>>]]
     ELSE [examples |-> [dtype |-> DTYPE_STRING,
                         tensorShape |-> [dim |-> <<[size |-> 1]>>],
                         stringVal |-> <<r.serializedExample>>],
           common |-> [dtype |-> DTYPE_STRING,
                       tensorShape |-> [dim |-> <<[size |-> 1]>>],
                       stringVal |-> <<r.serializedCommon>>]]]

\* The request object of client-with-scylla.js (lines 71-84) and of
\* SimpleInferenceClient._makeGrpcRequest.
InferencePayload(r) ==
  [model_spec |-> [name |-> r.modelName, signature_name |-> r.signatureName],
   inputs |-> [examples |-> [dtype |-> DTYPE_STRING,
                             tensor_shape |-> [dim |-> <<[size |-> 1]>>],
                             string_val |-> <<r.serializedExample>>]]]

RpcInit ==
  /\ rpc \in {[stage |-> "called", client |-> c, modelName |-> n,
                signatureName |-> s, serializedExample |-> b,
                serializedCommon |-> cm] :
                c \in Clients, n \in ModelNames, s \in SignatureNames,
                b \in SerializedExamples, cm \in {<<>>, <<18, 0>>}}
  /\ rpc.serializedCommon # <<>> => rpc.client = "makeIngressRequest"
  /\ BuilderIdle
  /\ HexIdle
  /\ CallsIdle
  /\ ScyllaIdle
  /\ ClientsIdle

\* The client builds its request object.
BuildRequest ==
  /\ rpc.stage = "called"
  /\ rpc' = [stage |-> "built", client |-> rpc.client, modelName |-> rpc.modelName,
             signatureName |-> rpc.signatureName,
             serializedExample |-> rpc.serializedExample,
             serializedCommon |-> rpc.serializedCommon,
             request |-> IF rpc.client = "makeIngressRequest"
                         THEN IngressPayload(rpc) ELSE InferencePayload(rpc)]
  /\ UNCHANGED <<builderVars, hexVars, calls, scyllaVars, clientVars>>

\* PredictRequest.encode(request).finish() and client.makeUnaryRequest: the
\* request the transport carries is what the encoder wrote.
MakeUnaryRequest ==
  /\ rpc.stage = "built"
  /\ rpc' = [stage |-> "sent", client |-> rpc.client, modelName |-> rpc.modelName,
             signatureName |-> rpc.signatureName,
             serializedExample |-> rpc.serializedExample,
             serializedCommon |-> rpc.serializedCommon,
             request |-> rpc.request,
             requestBuffer |-> EncodePredictRequest(rpc.request)]
  /\ UNCHANGED <<builderVars, hexVars, calls, scyllaVars, clientVars>>

RpcNext == BuildRequest \/ MakeUnaryRequest

RpcSpec == RpcInit /\ [][RpcNext]_vars

\* C17: in each of the three clients the encoded request that reaches the
\* transport holds the model name, the signature name and, under the input
\* "examples", a string-typed tensor whose value is the serialized example.
C17_RequestCarriesExample ==
  rpc.stage = "sent" =>
    LET sent == rpc.requestBuffer
    IN /\ "modelSpec" \in DOMAIN sent
       /\ "name" \in DOMAIN sent.modelSpec
       /\ sent.modelSpec.name = rpc.modelName
       /\ "signatureName" \in DOMAIN sent.modelSpec
       /\ sent.modelSpec.signatureName = rpc.signatureName
       /\ "inputs" \in DOMAIN sent
       /\ "examples" \in DOMAIN sent.inputs
       /\ DOMAIN sent.inputs.examples = {"dtype", "tensorShape", "stringVal"}
       /\ sent.inputs.examples.dtype = DTYPE_STRING
       /\ sent.inputs.examples.stringVal = <<rpc.serializedExample>>

\* makeInferenceRequest of client-with-scylla.js sent a request that holds
\* the input "examples" with its dtype and nothing else: no model, no
\* signature, no serialized example.
C17_Witness ==
  /\ rpc.stage = "sent"
  /\ rpc.client = "makeInferenceRequest"
  /\ Len(rpc.serializedExample) = 30
  /\ rpc.requestBuffer = [inputs |-> [examples |-> [dtype |-> DTYPE_STRING]]]

\* ------------------------------------------------------------ ScyllaClient

\* Most GAIDs in one batch.
MaxGaids == 2

\* Most calls of connect() on one ScyllaClient.
MaxConnectCalls == 2

GAIDs == {"2312341", "2312342", "2312343"}

\* A column value: a number (in thousandths) or null.
Cell(v) == [isNull |-> FALSE, v |-> v]
NullCell == [isNull |-> TRUE]

\* config.FEATURES.HISTORICAL and HISTORICAL_DEFAULTS.
HISTORICAL ==
  {"historical_ctr", "historical_cvr", "avg_watch_time", "engagement_score",
   "last_interaction_ts"}

HISTORICAL_DEFAULTS ==
  [historical_ctr |-> Cell(0), historical_cvr |-> Cell(0),
   avg_watch_time |-> Cell(0), engagement_score |-> Cell(0),
   last_interaction_ts |-> Cell(0)]

\* The rows of historical_features_table: one GAID with every column set,
\* one with null and zero columns, one without a row.
Table ==
  { [gaid |-> "2312341", historical_ctr |-> Cell(25), historical_cvr |-> Cell(3),
     avg_watch_time |-> Cell(12500), engagement_score |-> Cell(700),
     last_interaction_ts |-> Cell(1700000)],
    [gaid |-> "2312343", historical_ctr |-> NullCell, historical_cvr |-> Cell(0),
     avg_watch_time |-> Cell(4500), engagement_score |-> NullCell,
     last_interaction_ts |-> NullCell] }

\* SELECT ... FROM historical_features_table WHERE gaid = ?
Rows(gaid) ==
  IF \E row \in Table : row.gaid = gaid
  THEN <<CHOOSE row \in Table : row.gaid = gaid>>
  ELSE <<>>

NotConnected == [kind |-> "notConnected"]
QueryError == [kind |-> "error"]

\* How this.client.execute(query, [gaid]) can end: with an error at any time,
\* with rows when the statement was prepared and the table can be reached.
ExecuteReplies(query, gaid) ==
  {QueryError} \cup
    (IF query = "prepared" /\ cluster.reachable /\ cluster.keyspace /\ cluster.table
     THEN {[kind |-> "rows", rows |-> Rows(gaid)]} ELSE {})

\* value || fallback
Or(cell, fallback) == IF cell.isNull \/ cell.v = 0 THEN fallback ELSE cell

NullValue == [null |-> TRUE]

\* getHistoricalFeatures(gaid), given how its query ended (lines 113-137).
getHistoricalFeatures(gaid, reply) ==
  IF reply.kind = "notConnected"
    THEN [threw |-> TRUE, message |-> "ScyllaClient: Not connected. Call connect() first."]
  ELSE IF reply.kind = "error"
    THEN [threw |-> TRUE, message |-> "query error"]
  ELSE IF Len(reply.rows) = 0
    THEN [threw |-> FALSE, value |-> NullValue]
  ELSE LET row == reply.rows[1]
       IN [threw |-> FALSE,
           value |-> [gaid |-> row.gaid,
                      historical_ctr |->
                        Or(row.historical_ctr, HISTORICAL_DEFAULTS.historical_ctr),
                      historical_cvr |->
                        Or(row.historical_cvr, HISTORICAL_DEFAULTS.historical_cvr),
                      avg_watch_time |->
                        Or(row.avg_watch_time, HISTORICAL_DEFAULTS.avg_watch_time),
                      engagement_score |->
                        Or(row.engagement_score, HISTORICAL_DEFAULTS.engagement_score),
                      last_interaction_ts |->
                        Or(row.last_interaction_ts,
                           HISTORICAL_DEFAULTS.last_interaction_ts)]]

\* { gaid: gaid, ...config.FEATURES.HISTORICAL_DEFAULTS }
Defaults(gaid) ==
  [gaid |-> gaid,
   historical_ctr |-> HISTORICAL_DEFAULTS.historical_ctr,
   historical_cvr |-> HISTORICAL_DEFAULTS.historical_cvr,
   avg_watch_time |-> HISTORICAL_DEFAULTS.avg_watch_time,
   engagement_score |-> HISTORICAL_DEFAULTS.engagement_score,
   last_interaction_ts |-> HISTORICAL_DEFAULTS.last_interaction_ts]

\* No catch around the lookup: its error goes to the caller.
getHistoricalFeaturesWithDefaults_noCatch(gaid, reply) ==
  LET features == getHistoricalFeatures(gaid, reply)
  IN IF features.threw THEN [rejected |-> TRUE, message |-> features.message]
     ELSE IF features.value # NullValue
       THEN [rejected |-> FALSE, value |-> features.value]
     ELSE [rejected |-> FALSE, value |-> Defaults(gaid)]

\* getHistoricalFeaturesWithDefaults(gaid) (lines 146-166).
getHistoricalFeaturesWithDefaults(gaid, reply) ==
  LET features == getHistoricalFeatures(gaid, reply)
  IN IF features.threw THEN [rejected |-> FALSE, value |-> Defaults(gaid)]
     ELSE IF features.value # NullValue
       THEN [rejected |-> FALSE, value |-> features.value]
     ELSE [rejected |-> FALSE, value |-> Defaults(gaid)]

\* The catch gives the error on to the caller.
listKeyspaces_rethrows(reply) ==
  IF reply.kind = "error" THEN [threw |-> TRUE, message |-> "query error"]
  ELSE [threw |-> FALSE, value |-> reply.rows]

\* listKeyspaces() on a client that is set (lines 187-196).
listKeyspaces(reply) ==
  IF reply.kind = "error" THEN [threw |-> FALSE, value |-> <<>>]
  ELSE [threw |-> FALSE, value |-> reply.rows]

ScyllaInit ==
  /\ cluster \in {c \in [reachable : BOOLEAN, keyspace : BOOLEAN, table : BOOLEAN] :
                    c.table => c.keyspace}
  /\ client = NullClient
  /\ preparedStatements = {}
  /\ connectCall = [pc |-> "idle", calls |-> 0]
  /\ lookups = <<>>
  /\ batch = [stage |-> "idle"]
  /\ BuilderIdle
  /\ HexIdle
  /\ CallsIdle
  /\ RpcIdle
  /\ ClientsIdle

\* connect() is called, no other call of it being under way: it returns at
\* once when this.client is set, and otherwise sets this.client to a new
\* driver client and waits for its connect().
ConnectCall ==
  /\ connectCall.pc \in {"idle", "resolved", "rejected"}
  /\ connectCall.calls < MaxConnectCalls
  /\ IF client # NullClient
       THEN /\ connectCall' = [pc |-> "resolved", calls |-> connectCall.calls + 1]
            /\ UNCHANGED client
       ELSE /\ connectCall' = [pc |-> "connecting", calls |-> connectCall.calls + 1]
            /\ client' = [null |-> FALSE, connected |-> FALSE]
  /\ UNCHANGED <<cluster, preparedStatements, lookups, batch>>
  /\ UNCHANGED <<builderVars, hexVars, calls, rpc, clientVars>>

\* await this.client.connect() settles.
ConnectDone ==
  /\ connectCall.pc = "connecting"
  /\ IF cluster.reachable
       THEN /\ client' = [null |-> FALSE, connected |-> TRUE]
            /\ connectCall' = [connectCall EXCEPT !.pc = "use"]
       ELSE /\ connectCall' = [connectCall EXCEPT !.pc = "rejected"]
            /\ UNCHANGED client
  /\ UNCHANGED <<cluster, preparedStatements, lookups, batch>>
  /\ UNCHANGED <<builderVars, hexVars, calls, rpc, clientVars>>

\* await this.client.execute(`USE ${KEYSPACE}`) settles; an error is caught.
UseKeyspace ==
  /\ connectCall.pc = "use"
  /\ connectCall' =
       [connectCall EXCEPT !.pc = IF cluster.keyspace THEN "prepare" ELSE "list"]
  /\ UNCHANGED <<cluster, client, preparedStatements, lookups, batch>>
  /\ UNCHANGED <<builderVars, hexVars, calls, rpc, clientVars>>

\* await this.prepareStatements() settles; an error is caught.
PrepareStatements ==
  /\ connectCall.pc = "prepare"
  /\ IF cluster.table
       THEN /\ preparedStatements' = preparedStatements \cup {"getHistoricalFeatures"}
            /\ connectCall' = [connectCall EXCEPT !.pc = "resolved"]
       ELSE /\ connectCall' = [connectCall EXCEPT !.pc = "list"]
            /\ UNCHANGED preparedStatements
  /\ UNCHANGED <<cluster, client, lookups, batch>>
  /\ UNCHANGED <<builderVars, hexVars, calls, rpc, clientVars>>

\* In the catch: await this.listKeyspaces() settles and the names are logged.
ListKeyspaces ==
  /\ connectCall.pc = "list"
  /\ \E reply \in {QueryError, [kind |-> "rows", rows |-> <<"system", "ars_feature_store">>]} :
       connectCall' =
         [connectCall EXCEPT !.pc = IF listKeyspaces(reply).threw
                                     THEN "rejected" ELSE "resolved"]
  /\ UNCHANGED <<cluster, client, preparedStatements, lookups, batch>>
  /\ UNCHANGED <<builderVars, hexVars, calls, rpc, clientVars>>

RECURSIVE GaidsUpTo(_)
GaidsUpTo(n) ==
  IF n = 0 THEN {<<>>} ELSE GaidsUpTo(n - 1) \cup SeqsOfLen(GAIDs, n)

\* batchGetHistoricalFeatures(gaids): gaids.map starts every lookup before
\* any of them settles. A lookup on a client that is not set has thrown,
\* the others have their query under way.
BatchCall ==
  /\ batch.stage = "idle"
  /\ \E gaids \in GaidsUpTo(MaxGaids) :
       /\ batch' = [stage |-> "pending", gaids |-> gaids]
       /\ lookups' =
            [n \in 1..Len(gaids) |->
               IF client = NullClient
               THEN [gaid |-> gaids[n], stage |-> "thrown"]
               ELSE [gaid |-> gaids[n], stage |-> "executing",
                     query |-> IF "getHistoricalFeatures" \in preparedStatements
                               THEN "prepared" ELSE "undefined"]]
  /\ UNCHANGED <<cluster, client, preparedStatements, connectCall>>
  /\ UNCHANGED <<builderVars, hexVars, calls, rpc, clientVars>>

\* The lookups settled so far.
Settled(ls) == {n \in 1..Len(ls) : ls[n].stage = "settled"}

\* The lookup at position n settles: its query ended, or its throw reached
\* the catch of getHistoricalFeaturesWithDefaults.
LookupSettle(n) ==
  /\ n \in 1..Len(lookups)
  /\ lookups[n].stage \in {"thrown", "executing"}
  /\ \E reply \in IF lookups[n].stage = "thrown" THEN {NotConnected}
                   ELSE ExecuteReplies(lookups[n].query, lookups[n].gaid) :
       lookups' =
         [lookups EXCEPT ![n] =
            [gaid |-> lookups[n].gaid, stage |-> "settled", reply |-> reply,
             order |-> Cardinality(Settled(lookups)) + 1,
             outcome |-> getHistoricalFeaturesWithDefaults(lookups[n].gaid, reply)]]
  /\ UNCHANGED <<cluster, client, preparedStatements, connectCall, batch>>
  /\ UNCHANGED <<builderVars, hexVars, calls, rpc, clientVars>>

\* The results in the order in which the lookups settled.
PromiseAll_settleOrder(ls) ==
  [stage |-> "resolved",
   results |-> [k \in 1..Len(ls) |->
                  ls[CHOOSE n \in 1..Len(ls) : ls[n].order = k].outcome.value]]

\* Promise.all(promises), every promise settled or one rejected: rejected
\* with the first rejection, else resolved with the values by position.
PromiseAll(ls) ==
  IF \E n \in Settled(ls) : ls[n].outcome.rejected
  THEN [stage |-> "rejected"]
  ELSE [stage |-> "resolved",
        results |-> [n \in 1..Len(ls) |-> ls[n].outcome.value]]

\* The promise of batchGetHistoricalFeatures settles.
BatchSettle ==
  /\ batch.stage = "pending"
  /\ \/ Settled(lookups) = 1..Len(lookups)
     \/ \E n \in Settled(lookups) : lookups[n].outcome.rejected
  /\ batch' = [stage |-> PromiseAll(lookups).stage, gaids |-> batch.gaids,
               settled |-> PromiseAll(lookups)]
  /\ UNCHANGED <<cluster, client, preparedStatements, connectCall, lookups>>
  /\ UNCHANGED <<builderVars, hexVars, calls, rpc, clientVars>>

ScyllaNext ==
  \/ ConnectCall
  \/ ConnectDone
  \/ UseKeyspace
  \/ PrepareStatements
  \/ ListKeyspaces
  \/ BatchCall
  \/ \E n \in 1..MaxGaids : LookupSettle(n)
  \/ BatchSettle

ScyllaSpec == ScyllaInit /\ [][ScyllaNext]_vars

\* The defaults as config.js sets them, for one GAID.
ConfiguredDefaults(gaid) ==
  [gaid |-> gaid, historical_ctr |-> Cell(0), historical_cvr |-> Cell(0),
   avg_watch_time |-> Cell(0), engagement_score |-> Cell(0),
   last_interaction_ts |-> Cell(0)]

\* No row was obtained: the client was not set, the query failed, or it
\* found nothing.
NoRowObtained(reply) ==
  \/ reply.kind \in {"notConnected", "error"}
  \/ reply.kind = "rows" /\ reply.rows = <<>>

\* C18: getHistoricalFeaturesWithDefaults(gaid) never rejects and never gives
\* null, whether the client is set or not, whatever exists in the cluster and
\* however the query ends: it resolves with an object of the requested gaid
\* and a value for each of the five historical features, which are the
\* configured defaults whenever no row was obtained.
C18_AlwaysFeatures ==
  \A n \in Settled(lookups) :
    LET lookup == lookups[n]
    IN /\ ~lookup.outcome.rejected
       /\ lookup.outcome.value # NullValue
       /\ DOMAIN lookup.outcome.value = HISTORICAL \cup {"gaid"}
       /\ lookup.outcome.value.gaid = lookup.gaid
       /\ \A f \in HISTORICAL : ~lookup.outcome.value[f].isNull
       /\ NoRowObtained(lookup.reply) =>
            lookup.outcome.value = ConfiguredDefaults(lookup.gaid)

\* One lookup whose query failed, one that found the row with null and zero
\* columns: defaults for the first, the row's values and defaults for its
\* null columns for the second.
C18_Witness ==
  /\ Len(lookups) = 2
  /\ Settled(lookups) = {1, 2}
  /\ lookups[1].reply = QueryError
  /\ lookups[1].outcome.value = ConfiguredDefaults(lookups[1].gaid)
  /\ lookups[2].gaid = "2312343"
  /\ lookups[2].reply.kind = "rows"
  /\ Len(lookups[2].reply.rows) = 1
  /\ lookups[2].outcome.value.historical_ctr = Cell(0)
  /\ lookups[2].outcome.value.avg_watch_time = Cell(4500)

\* C19: batchGetHistoricalFeatures(gaids) has every lookup under way before
\* any settles, never rejects, and resolves with as many results as gaids,
\* the n-th being that of gaids[n], in whatever order the lookups settle and
\* whichever of them fail or find no row.
C19_BatchResultsByPosition ==
  /\ batch.stage # "idle" =>
       /\ Len(lookups) = Len(batch.gaids)
       /\ \A n \in 1..Len(lookups) : lookups[n].gaid = batch.gaids[n]
  /\ batch.stage # "rejected"
  /\ batch.stage = "resolved" =>
       /\ Settled(lookups) = 1..Len(lookups)
       /\ Len(batch.settled.results) = Len(batch.gaids)
       /\ \A n \in 1..Len(batch.gaids) :
            /\ batch.settled.results[n].gaid = batch.gaids[n]
            /\ batch.settled.results[n] = lookups[n].outcome.value

\* The second lookup settled first and with an error, the first found its
\* row: the results are in the order of gaids.
C19_Witness ==
  /\ batch.stage = "resolved"
  /\ batch.gaids = <<"2312341", "2312342">>
  /\ lookups[1].order = 2
  /\ lookups[2].order = 1
  /\ lookups[1].reply.kind = "rows"
  /\ lookups[2].reply = QueryError
  /\ batch.settled.results[1].historical_ctr = Cell(25)
  /\ batch.settled.results[2] = ConfiguredDefaults("2312342")

\* C20: with a cluster that can be reached but has no such keyspace or no
\* such table, connect() is never rejected; once it resolved, the client is
\* set and connected and holds no prepared statement, and every lookup
\* through getHistoricalFeaturesWithDefaults resolves with the defaults.
C20_ConnectWithoutKeyspace ==
  (cluster.reachable /\ ~(cluster.keyspace /\ cluster.table)) =>
    /\ connectCall.pc # "rejected"
    /\ connectCall.pc = "resolved" =>
         /\ client = [null |-> FALSE, connected |-> TRUE]
         /\ preparedStatements = {}
    /\ \A n \in Settled(lookups) :
         lookups[n].outcome =
           [rejected |-> FALSE, value |-> ConfiguredDefaults(lookups[n].gaid)]

\* The keyspace is there, the table is not: connect() resolved after the
\* failed prepare, and a lookup on the connected client got the defaults.
C20_Witness ==
  /\ cluster = [reachable |-> TRUE, keyspace |-> TRUE, table |-> FALSE]
  /\ connectCall = [pc |-> "resolved", calls |-> 1]
  /\ client = [null |-> FALSE, connected |-> TRUE]
  /\ batch.stage = "resolved"
  /\ batch.gaids = <<"2312341">>
  /\ lookups[1].reply = QueryError
  /\ batch.settled.results = <<ConfiguredDefaults("2312341")>>

\* ------------------------------------------------------ makeIngressRequest

\* The port of TLS.
TLS_PORT == 443

\* The options of a call. A required option is missing (undefined, null or
\* empty), of the type the request needs, or of another type; the port is
\* 443 or 80.
IngressOptions ==
  [serializedExample : {"missing", "buffer", "object"},
   modelName : {"missing", "string", "number"},
   ingressHost : {"missing", "string"},
   modelPath : {"missing", "string"},
   port : {TLS_PORT, 80}]

\* The certificate file at caCertPath.
CertFiles == {"absent", "empty", "valid"}

\* The check of modelPath left out.
RequiredOption_noModelPath(o) ==
  IF o.serializedExample = "missing" THEN "serializedExample is required"
  ELSE IF o.modelName = "missing" THEN "modelName is required"
  ELSE IF o.ingressHost = "missing" THEN "ingressHost is required"
  ELSE "none"

\* Validate required parameters (lines 50-62): the error thrown, if any.
RequiredOption(o) ==
  IF o.serializedExample = "missing" THEN "serializedExample is required"
  ELSE IF o.modelName = "missing" THEN "modelName is required"
  ELSE IF o.ingressHost = "missing" THEN "ingressHost is required"
  ELSE IF o.modelPath = "missing" THEN "modelPath is required (e.g., ADS_LST_DNB_BASELINE)"
  ELSE "none"

\* The file is read and handed to createSsl without a look at it.
Credentials_unchecked(o, cert) ==
  IF o.port = TLS_PORT
  THEN [error |-> "none", log |-> <<"readFileSync", "createSsl">>]
  ELSE [error |-> "none", log |-> <<"createInsecure">>]

\* Setup credentials (lines 81-100): what is done, and the error thrown.
Credentials(o, cert) ==
  IF o.port = TLS_PORT
  THEN IF cert = "absent"
         THEN [error |-> "Certificate file not found", log |-> <<"existsSync">>]
       ELSE IF cert = "empty"
         THEN [error |-> "Certificate file is empty",
               log |-> <<"existsSync", "readFileSync">>]
       ELSE [error |-> "none", log |-> <<"existsSync", "readFileSync", "createSsl">>]
  ELSE [error |-> "none", log |-> <<"createInsecure">>]

\* PredictRequest.verify(requestPayload) (lines 142-145): name must be a
\* string, stringVal an array of buffers.
Verify(o) ==
  IF o.modelName # "string" \/ o.serializedExample # "buffer"
  THEN "Invalid PredictRequest" ELSE "none"

\* makeIngressRequest up to the return of its promise: none of it waits.
IngressCall(o, cert) ==
  IF RequiredOption(o) # "none"
    THEN [pc |-> "rejected", error |-> RequiredOption(o), log |-> <<>>]
  ELSE IF Credentials(o, cert).error # "none"
    THEN [pc |-> "rejected", error |-> Credentials(o, cert).error,
          log |-> Credentials(o, cert).log]
  ELSE IF Verify(o) # "none"
    THEN [pc |-> "rejected", error |-> Verify(o),
          log |-> Credentials(o, cert).log \o <<"new grpc.Client">>]
  ELSE [pc |-> "waiting", error |-> "none",
        log |-> Credentials(o, cert).log
                  \o <<"new grpc.Client", "makeUnaryRequest">>]

IngressInit ==
  /\ ingress \in {[pc |-> "called", options |-> o, cert |-> cert] :
                    o \in IngressOptions, cert \in CertFiles}
  /\ historical = [pc |-> "idle"]
  /\ scoring = [pc |-> "idle"]
  /\ pipeline = [pc |-> "idle"]
  /\ lifecycle = [pc |-> "idle"]
  /\ BuilderIdle
  /\ HexIdle
  /\ CallsIdle
  /\ RpcIdle
  /\ ScyllaIdle

\* The call runs up to its first wait.
IngressRun ==
  /\ ingress.pc = "called"
  /\ ingress' = [pc |-> IngressCall(ingress.options, ingress.cert).pc,
                 options |-> ingress.options, cert |-> ingress.cert,
                 error |-> IngressCall(ingress.options, ingress.cert).error,
                 log |-> IngressCall(ingress.options, ingress.cert).log]
  /\ UNCHANGED <<builderVars, hexVars, calls, rpc, scyllaVars, historical,
                 scoring, pipeline, lifecycle>>

\* The callback of makeUnaryRequest (lines 167-181): the client is closed,
\* then the promise settles.
IngressCallback ==
  /\ ingress.pc = "waiting"
  /\ \E outcome \in {[pc |-> "resolved", error |-> "none"],
                      [pc |-> "rejected", error |-> "14 UNAVAILABLE"],
                      [pc |-> "rejected", error |-> "4 DEADLINE_EXCEEDED"]} :
       ingress' = [pc |-> outcome.pc, options |-> ingress.options,
                   cert |-> ingress.cert, error |-> outcome.error,
                   log |-> Append(ingress.log, "close")]
  /\ UNCHANGED <<builderVars, hexVars, calls, rpc, scyllaVars, historical,
                 scoring, pipeline, lifecycle>>

IngressNext == IngressRun \/ IngressCallback

IngressSpec == IngressInit /\ [][IngressNext]_vars

\* How often a step is in the log of the call.
Times(log, step) == Cardinality({n \in 1..Len(log) : log[n] = step})

AnyRequiredMissing(o) ==
  "missing" \in {o.serializedExample, o.modelName, o.ingressHost, o.modelPath}

\* C21: a call in which serializedExample, modelName, ingressHost or
\* modelPath is missing is rejected with the '<name> is required' error of
\* the first of them that is missing, and nothing was done: no certificate
\* looked at or read, no gRPC client created, no request sent.
C21_RequiredOptions ==
  (ingress.pc # "called" /\ AnyRequiredMissing(ingress.options)) =>
    /\ ingress.pc = "rejected"
    /\ ingress.log = <<>>
    /\ ingress.error =
         (IF ingress.options.serializedExample = "missing"
            THEN "serializedExample is required"
          ELSE IF ingress.options.modelName = "missing"
            THEN "modelName is required"
          ELSE IF ingress.options.ingressHost = "missing"
            THEN "ingressHost is required"
          ELSE "modelPath is required (e.g., ADS_LST_DNB_BASELINE)")

\* Only modelPath is missing, the certificate is fine.
C21_Witness ==
  /\ ingress.pc = "rejected"
  /\ ingress.options = [serializedExample |-> "buffer", modelName |-> "string",
                        ingressHost |-> "string", modelPath |-> "missing",
                        port |-> TLS_PORT]
  /\ ingress.cert = "valid"
  /\ ingress.error = "modelPath is required (e.g., ADS_LST_DNB_BASELINE)"
  /\ ingress.log = <<>>

C23_ClientClosedOnce ==
  ingress.pc \in {"resolved", "rejected"} =>
    Times(ingress.log, "close") = Times(ingress.log, "new grpc.Client")

\* modelName is a number: the verification failed after the client was
\* created, and the call was rejected with the client left open.
C23_Witness ==
  /\ ingress.pc = "rejected"
  /\ ingress.options.modelName = "number"
  /\ ingress.error = "Invalid PredictRequest"
  /\ Times(ingress.log, "new grpc.Client") = 1
  /\ Times(ingress.log, "close") = 0

\* ------------------------------ SimpleInferenceClient.getHistoricalFeatures

\* The most components a stored value has: one more than the features.
MaxComponents == 19

\* The features in the order of the columns.
FeatureNames ==
  <<"requests_1_day", "responses_1_day", "floor_price_sum_1_day",
    "floor_price_max_1_day", "winning_bid_sum_1_day", "winning_bid_max_1_day",
    "winrate_1_day", "floor_price_avg_1_day", "winning_bid_avg_1_day",
    "requests_7_day", "responses_7_day", "floor_price_sum_7_day",
    "floor_price_max_7_day", "winning_bid_sum_7_day", "winning_bid_max_7_day",
    "winrate_7_day", "floor_price_avg_7_day", "winning_bid_avg_7_day">>

\* A JavaScript number with a finite decimal form: sign, integer part and the
\* digits after the point, without trailing zeros.
Number(neg, int, frac) == [neg |-> neg, int |-> int, frac |-> frac]
Zero == Number(FALSE, 0, <<>>)
NaN == [nan |-> TRUE]
Undefined == [undefined |-> TRUE]

\* A number is falsy when it is NaN, 0 or -0; undefined is falsy.
Falsy(v) == v = NaN \/ v = Undefined \/ (v.int = 0 /\ v.frac = <<>>)

Digits == {"0", "1", "2", "5"}
DigitValue(c) == CASE c = "0" -> 0 [] c = "1" -> 1 [] c = "2" -> 2 [] c = "5" -> 5

RECURSIVE DigitsValue(_)
DigitsValue(ds) ==
  IF ds = <<>> THEN 0
  ELSE DigitsValue(SubSeq(ds, 1, Len(ds) - 1)) * 10 + DigitValue(ds[Len(ds)])

\* The longest prefix of digits.
RECURSIVE DigitPrefix(_)
DigitPrefix(s) ==
  IF s # <<>> /\ s[1] \in Digits THEN <<s[1]>> \o DigitPrefix(Tail(s)) ELSE <<>>

RECURSIVE StripTrailingZeros(_)
StripTrailingZeros(ds) ==
  IF ds # <<>> /\ ds[Len(ds)] = "0"
  THEN StripTrailingZeros(SubSeq(ds, 1, Len(ds) - 1)) ELSE ds

RECURSIVE TrimStart(_)
TrimStart(s) == IF s # <<>> /\ s[1] = " " THEN TrimStart(Tail(s)) ELSE s

AfterSign(s) == IF s # <<>> /\ s[1] = "-" THEN Tail(s) ELSE s
AfterInt(s) == SubSeq(AfterSign(s), Len(DigitPrefix(AfterSign(s))) + 1, Len(AfterSign(s)))
FracDigits(s) ==
  IF AfterInt(s) # <<>> /\ AfterInt(s)[1] = "." THEN DigitPrefix(Tail(AfterInt(s)))
  ELSE <<>>

\* parseFloat: leading white space is skipped, the longest prefix that is a
\* decimal literal is read, and what follows it is ignored; NaN without one.
parseFloat(text) ==
  IF DigitPrefix(AfterSign(TrimStart(text))) = <<>> /\ FracDigits(TrimStart(text)) = <<>>
  THEN NaN
  ELSE Number(TrimStart(text) # <<>> /\ TrimStart(text)[1] = "-",
              DigitsValue(DigitPrefix(AfterSign(TrimStart(text)))),
              StripTrailingZeros(FracDigits(TrimStart(text))))

\* valueStr.split(':'): the pieces between the colons, at least one.
RECURSIVE Split(_)
Split(s) ==
  IF \A n \in 1..Len(s) : s[n] # ":" THEN <<s>>
  ELSE LET n == CHOOSE n \in 1..Len(s) : s[n] = ":" /\ \A k \in 1..(n - 1) : s[k] # ":"
       IN <<SubSeq(s, 1, n - 1)>> \o Split(SubSeq(s, n + 1, Len(s)))

\* The stored form: the components with colons between them.
RECURSIVE Join(_)
Join(components) ==
  IF components = <<>> THEN <<>>
  ELSE IF Len(components) = 1 THEN components[1]
  ELSE components[1] \o <<":">> \o Join(Tail(components))

\* features[i] of JavaScript (i from 0): undefined past the end.
At(features, i) == IF i + 1 \in DOMAIN features THEN features[i + 1] ELSE Undefined

\* The fallback to 0 left out.
parseFeatures_noFallback(features) ==
  [name \in {FeatureNames[n] : n \in DOMAIN FeatureNames} |->
     At(features, (CHOOSE n \in DOMAIN FeatureNames : FeatureNames[n] = name) - 1)]

\* _parseFeatures: the named features, features[i] || 0.
parseFeatures(features) ==
  [name \in {FeatureNames[n] : n \in DOMAIN FeatureNames} |->
     LET i == (CHOOSE n \in DOMAIN FeatureNames : FeatureNames[n] = name) - 1
     IN IF Falsy(At(features, i)) THEN Zero ELSE At(features, i)]

\* _getDefaultFeatures.
getDefaultFeatures == [name \in {FeatureNames[n] : n \in DOMAIN FeatureNames} |-> Zero]

\* String(row.value || '').split(':').map(v => parseFloat(v) || 0.0), then
\* _parseFeatures; the defaults without a row.
SimpleHistoricalFeatures(rows) ==
  IF Len(rows) = 0 THEN getDefaultFeatures
  ELSE LET valueStr == IF rows[1].isNull THEN <<>> ELSE rows[1].value
           pieces == Split(valueStr)
       IN parseFeatures([n \in DOMAIN pieces |->
                           IF Falsy(parseFloat(pieces[n])) THEN Zero
                           ELSE parseFloat(pieces[n])])

\* Components a stored value may hold, each with the number it denotes;
\* Zero for the ones that denote none.
ComponentTable ==
  {[text |-> <<"1", "2">>, number |-> Number(FALSE, 12, <<>>)],
   [text |-> <<"0", ".", "5">>, number |-> Number(FALSE, 0, <<"5">>)],
   [text |-> <<"2", ".", "5", "0">>, number |-> Number(FALSE, 2, <<"5">>)],
   [text |-> <<".", "2", "5">>, number |-> Number(FALSE, 0, <<"2", "5">>)],
   [text |-> <<"-", "1">>, number |-> Number(TRUE, 1, <<>>)],
   [text |-> <<" ", "5">>, number |-> Number(FALSE, 5, <<>>)],
   [text |-> <<"2", "x">>, number |-> Number(FALSE, 2, <<>>)],
   [text |-> <<"0">>, number |-> Zero],
   [text |-> <<"-", "0", ".", "0">>, number |-> Zero],
   [text |-> <<>>, number |-> Zero],
   [text |-> <<"x">>, number |-> Zero],
   [text |-> <<"N", "a", "N">>, number |-> Zero],
   [text |-> <<"-">>, number |-> Zero],
   [text |-> <<".">>, number |-> Zero]}

\* The i-th component of a well-formed value.
GoodComponent(i) ==
  IF i % 3 = 0 THEN [text |-> <<"1", "2">>, number |-> Number(FALSE, 12, <<>>)]
  ELSE IF i % 3 = 1 THEN [text |-> <<"0", ".", "5">>, number |-> Number(FALSE, 0, <<"5">>)]
  ELSE [text |-> <<"5">>, number |-> Number(FALSE, 5, <<>>)]

\* Stored values: n components, well-formed but one taken from the table.
StoredValues ==
  {[i \in 1..n |-> IF i = at THEN c ELSE GoodComponent(i)] :
     n \in 1..MaxComponents, at \in 1..MaxComponents, c \in ComponentTable}

\* What execute() gives: an error, no row, a row without a value, or a row
\* with a stored value.
SimpleReplies ==
  {[ok |-> FALSE]}
    \cup {[ok |-> TRUE, rows |-> <<>>, components |-> <<>>]}
    \cup {[ok |-> TRUE, rows |-> <<[isNull |-> TRUE, value |-> <<>>]>>,
           components |-> <<>>]}
    \cup {[ok |-> TRUE,
           rows |-> <<[isNull |-> FALSE,
                       value |-> Join([i \in DOMAIN v |-> v[i].text])]>>,
           components |-> v] : v \in StoredValues}

HistoricalInit ==
  /\ historical \in {[pc |-> "called", reply |-> reply] : reply \in SimpleReplies}
  /\ ingress = [pc |-> "idle"]
  /\ scoring = [pc |-> "idle"]
  /\ pipeline = [pc |-> "idle"]
  /\ lifecycle = [pc |-> "idle"]
  /\ BuilderIdle
  /\ HexIdle
  /\ CallsIdle
  /\ RpcIdle
  /\ ScyllaIdle

\* getHistoricalFeatures after the await of execute().
GetHistoricalFeatures ==
  /\ historical.pc = "called"
  /\ historical' =
       IF historical.reply.ok
       THEN [pc |-> "resolved", reply |-> historical.reply,
             features |-> SimpleHistoricalFeatures(historical.reply.rows)]
       ELSE [pc |-> "rejected", reply |-> historical.reply]
  /\ UNCHANGED <<builderVars, hexVars, calls, rpc, scyllaVars, ingress,
                 scoring, pipeline, lifecycle>>

HistoricalNext == GetHistoricalFeatures

HistoricalSpec == HistoricalInit /\ [][HistoricalNext]_vars

IsNumber(v) == v # NaN /\ v # Undefined /\ DOMAIN v = {"neg", "int", "frac"}

\* C24: when the query succeeds the call resolves with the 18 named
\* features, each a number: all 0 without a row, and otherwise feature i is
\* the number of the i-th colon-separated component, or 0 when there is no
\* i-th component or it denotes no number.
C24_EighteenNumbers ==
  (historical.pc # "called" /\ historical.reply.ok) =>
    /\ historical.pc = "resolved"
    /\ DOMAIN historical.features = {FeatureNames[n] : n \in DOMAIN FeatureNames}
    /\ Len(FeatureNames) = 18
    /\ \A n \in DOMAIN FeatureNames :
         /\ IsNumber(historical.features[FeatureNames[n]])
         /\ historical.features[FeatureNames[n]] =
              (IF n \in DOMAIN historical.reply.components
               THEN historical.reply.components[n].number ELSE Zero)

\* A value of 17 components whose third is "x": feature 3 and feature 18
\* are 0, feature 1 is 0.5.
C24_Witness ==
  /\ historical.pc = "resolved"
  /\ Len(historical.reply.rows) = 1
  /\ Len(historical.reply.components) = 17
  /\ historical.reply.components[3].text = <<"x">>
  /\ historical.features["floor_price_sum_1_day"] = Zero
  /\ historical.features["winning_bid_avg_7_day"] = Zero
  /\ historical.features["requests_1_day"] = Number(FALSE, 0, <<"5">>)

\* ---------------------------------------------------------- scoreAllExamples

\* The count of feature examples, getCount().
NumExamples == 2

MODEL_VARIANTS == <<"BASELINE", "CONSERVATIVE", "AGGRESSIVE">>

\* How a request of makeIngressRequest settles: a response with outputs, a
\* response without, or an error with its message.
RequestOutcomes ==
  {[ok |-> TRUE, outputs |-> [bid |-> [floatVal |-> <<5>>, int64Val |-> <<>>],
                              rank |-> [floatVal |-> <<>>, int64Val |-> <<2>>],
                              none |-> [floatVal |-> <<>>, int64Val |-> <<>>]]],
   [ok |-> TRUE, outputs |-> <<>>],
   [ok |-> FALSE, message |-> "14 UNAVAILABLE"],
   [ok |-> FALSE, message |-> "Certificate file not found"]}

\* Extract predictions from response (lines 60-70): the first float value
\* of an output, else its first int64 value; outputs with neither are left out.
Predictions(outputs) ==
  [name \in {n \in DOMAIN outputs : Len(outputs[n].floatVal) > 0
                                       \/ Len(outputs[n].int64Val) > 0} |->
     IF Len(outputs[name].floatVal) > 0 THEN outputs[name].floatVal[1]
     ELSE outputs[name].int64Val[1]]

\* What the try and the catch record for a variant (lines 72-84).
ModelResult(outcome) ==
  IF outcome.ok THEN [status |-> "ok", predictions |-> Predictions(outcome.outputs)]
  ELSE [status |-> "failed", error |-> outcome.message]

\* The loop over the variants left after a failure, as with a catch that
\* rethrows or breaks.
NextVariant_stopOnFailure(mi, outcome) ==
  IF outcome.ok THEN mi + 1 ELSE Len(MODEL_VARIANTS) + 1

\* for (const variant of MODEL_VARIANTS): the catch falls through to the
\* next variant.
NextVariant(mi, outcome) == mi + 1

\* Overall stats of displaySummaryTable (lines 184-192).
Count(results, status) ==
  Cardinality({<<r, mi>> \in (DOMAIN results) \X (DOMAIN MODEL_VARIANTS) :
                 /\ MODEL_VARIANTS[mi] \in DOMAIN results[r].models
                 /\ results[r].models[MODEL_VARIANTS[mi]].status = status})

displaySummaryTable(results) ==
  [totalCalls |-> Len(results) * Len(MODEL_VARIANTS),
   totalSuccess |-> Count(results, "ok"),
   totalFailed |-> Count(results, "failed")]

ScoringInit ==
  /\ scoring = [pc |-> "example", i |-> 0, mi |-> 1, models |-> <<>>,
                results |-> <<>>, requests |-> <<>>, outcomes |-> <<>>]
  /\ ingress = [pc |-> "idle"]
  /\ historical = [pc |-> "idle"]
  /\ pipeline = [pc |-> "idle"]
  /\ lifecycle = [pc |-> "idle"]
  /\ BuilderIdle
  /\ HexIdle
  /\ CallsIdle
  /\ RpcIdle
  /\ ScyllaIdle

\* The head of the loop over the examples: the next example is serialized
\* and its exampleResults made, or the loop is over and the table displayed.
ScoreExample ==
  /\ scoring.pc = "example"
  /\ IF scoring.i < NumExamples
     THEN scoring' = [scoring EXCEPT !.pc = "request", !.mi = 1, !.models = <<>>]
     ELSE scoring' = [pc |-> "done", i |-> scoring.i, mi |-> scoring.mi,
                      models |-> scoring.models, results |-> scoring.results,
                      requests |-> scoring.requests, outcomes |-> scoring.outcomes,
                      summary |-> displaySummaryTable(scoring.results)]
  /\ UNCHANGED <<builderVars, hexVars, calls, rpc, scyllaVars, ingress,
                 historical, pipeline, lifecycle>>

\* await makeIngressRequest({...}) for the variant at hand.
ScoreRequest ==
  /\ scoring.pc = "request"
  /\ scoring' = [scoring EXCEPT
                   !.pc = "await",
                   !.requests = Append(@, <<scoring.i, MODEL_VARIANTS[scoring.mi]>>)]
  /\ UNCHANGED <<builderVars, hexVars, calls, rpc, scyllaVars, ingress,
                 historical, pipeline, lifecycle>>

\* The request settles: the try or the catch records the variant's result;
\* after the last variant the example's results are pushed.
ScoreSettle ==
  /\ scoring.pc = "await"
  /\ \E outcome \in RequestOutcomes :
       LET models == [v \in DOMAIN scoring.models \cup {MODEL_VARIANTS[scoring.mi]} |->
                        IF v = MODEL_VARIANTS[scoring.mi] THEN ModelResult(outcome)
                        ELSE scoring.models[v]]
           mi == NextVariant(scoring.mi, outcome)
       IN scoring' =
            IF mi \in DOMAIN MODEL_VARIANTS
            THEN [scoring EXCEPT !.pc = "request", !.mi = mi, !.models = models,
                                 !.outcomes = Append(@, outcome)]
            ELSE [scoring EXCEPT !.pc = "example", !.mi = mi, !.models = models,
                                 !.outcomes = Append(@, outcome),
                                 !.i = @ + 1,
                                 !.results = Append(@, [index |-> scoring.i,
                                                        models |-> models])]
  /\ UNCHANGED <<builderVars, hexVars, calls, rpc, scyllaVars, ingress,
                 historical, pipeline, lifecycle>>

ScoringNext == ScoreExample \/ ScoreRequest \/ ScoreSettle

ScoringSpec == ScoringInit /\ [][ScoringNext]_vars

\* The requests of a full run: every example with every variant, in order.
AllRequests ==
  [n \in 1..(NumExamples * 3) |-> <<(n - 1) \div 3, MODEL_VARIANTS[((n - 1) % 3) + 1]>>]

\* C25: when scoreAllExamples is done, one request was made for every
\* example and each of the three variants, whatever the requests before it
\* did; every example has one result per variant, a success with the
\* predictions of its response or a failure with the message of its error;
\* and in the summary successes plus failures is examples times 3.
C25_FailuresIsolated ==
  scoring.pc = "done" =>
    /\ scoring.requests = AllRequests
    /\ Len(scoring.results) = NumExamples
    /\ \A r \in DOMAIN scoring.results :
         /\ scoring.results[r].index = r - 1
         /\ DOMAIN scoring.results[r].models = {MODEL_VARIANTS[mi] : mi \in 1..3}
         /\ \A mi \in 1..3 :
              LET outcome == scoring.outcomes[(r - 1) * 3 + mi]
                  recorded == scoring.results[r].models[MODEL_VARIANTS[mi]]
              IN IF outcome.ok
                 THEN /\ recorded.status = "ok"
                      /\ DOMAIN recorded = {"status", "predictions"}
                      /\ DOMAIN recorded.predictions =
                           (IF outcome.outputs = <<>> THEN {} ELSE {"bid", "rank"})
                      /\ \A name \in DOMAIN recorded.predictions :
                           recorded.predictions[name] = (IF name = "bid" THEN 5 ELSE 2)
                 ELSE recorded = [status |-> "failed", error |-> outcome.message]
    /\ scoring.summary.totalSuccess + scoring.summary.totalFailed = NumExamples * 3
    /\ scoring.summary.totalCalls = NumExamples * 3

\* The first request of the first example failed and a later one of the
\* same example and one of the next example succeeded.
C25_Witness ==
  /\ scoring.pc = "done"
  /\ ~scoring.outcomes[1].ok
  /\ scoring.results[1].models["BASELINE"].status = "failed"
  /\ scoring.results[1].models["AGGRESSIVE"].status = "ok"
  /\ scoring.results[NumExamples].models["BASELINE"].status = "ok"
  /\ scoring.summary.totalFailed >= 1
  /\ scoring.summary.totalSuccess >= 2

\* ------------------------------------------------- the life of a ScyllaClient

\* The most calls made on the ScyllaClient.
MaxLifecycleCalls == 3

\* Who calls: a call of one may be under way while the other calls.
LifecycleCallers == {"a", "b"}

\* The methods that query through this.client.
QueryOps == {"getHistoricalFeatures", "listKeyspaces", "testConnection", "getTableSchema"}

NotConnectedMessage == "ScyllaClient: Not connected. Call connect() first."

\* this.client when set: the driver client made by the id-th new
\* cassandra.Client of this ScyllaClient.
DriverClient(id) == [null |-> FALSE, id |-> id]

\* What a method makes of the end of its query: getHistoricalFeatures and
\* getTableSchema throw the error again, listKeyspaces gives [] and
\* testConnection false.
QueryResult(op, reply) ==
  IF op = "listKeyspaces"
    THEN [pc |-> "resolved", message |-> "none"]
  ELSE IF op = "testConnection"
    THEN [pc |-> "resolved", message |-> "none"]
  ELSE IF reply.kind = "error"
    THEN [pc |-> "rejected", message |-> "query error"]
  ELSE [pc |-> "resolved", message |-> "none"]

LifecycleInit ==
  /\ cluster \in {c \in [reachable : BOOLEAN, keyspace : BOOLEAN, table : BOOLEAN] :
                    c.table => c.keyspace}
  /\ client = NullClient
  /\ preparedStatements = {}
  /\ connectCall = [pc |-> "idle", calls |-> 0]
  /\ lookups = <<>>
  /\ batch = [stage |-> "idle"]
  /\ lifecycle = [pc |-> "constructed",
                  callers |-> [c \in LifecycleCallers |-> [pc |-> "idle"]],
                  drivers |-> <<>>, queries |-> 0, count |-> 0,
                  phase |-> "disconnected"]
  /\ ingress = [pc |-> "idle"]
  /\ historical = [pc |-> "idle"]
  /\ scoring = [pc |-> "idle"]
  /\ pipeline = [pc |-> "idle"]
  /\ BuilderIdle
  /\ HexIdle
  /\ CallsIdle
  /\ RpcIdle

LifecycleFrame ==
  /\ UNCHANGED <<cluster, connectCall, lookups, batch>>
  /\ UNCHANGED <<builderVars, hexVars, calls, rpc, ingress, historical, scoring,
                 pipeline>>

\* A caller may call when no call of its own is under way.
MayCall(c) ==
  /\ lifecycle.callers[c].pc \in {"idle", "resolved", "rejected"}
  /\ lifecycle.count < MaxLifecycleCalls

\* What a call notes when it starts: whether this.client was null, whether
\* the ScyllaClient was before its first connect() or after a close() with
\* no connect() since, and how many driver clients had been created.
Started(op) ==
  [op |-> op, pc |-> "started",
   wasNull |-> client = NullClient, phase |-> lifecycle.phase,
   known |-> Len(lifecycle.drivers),
   created |-> 0, queries |-> 0, shutdowns |-> 0, established |-> FALSE,
   message |-> "none", id |-> IF client = NullClient THEN 0 ELSE client.id]

\* if (this.client) { 'Already connected'; return; } (lines 27-30): connect()
\* goes on only when this.client is null.
MustConnect == client = NullClient

\* connect() up to its first await (lines 26-59).
Connect(c) ==
  /\ MayCall(c)
  /\ IF ~MustConnect
     THEN /\ lifecycle' =
               [lifecycle EXCEPT
                  !.callers[c] =
                     [Started("connect") EXCEPT
                        !.pc = "resolved",
                        !.message = "Already connected",
                        !.established = lifecycle.drivers[client.id] = "connected"],
                  !.count = @ + 1, !.phase = "connect called"]
          /\ UNCHANGED client
     ELSE /\ client' = DriverClient(Len(lifecycle.drivers) + 1)
          /\ lifecycle' =
               [lifecycle EXCEPT
                  !.callers[c] =
                     [Started("connect") EXCEPT
                        !.pc = "connecting", !.created = 1,
                        !.id = Len(lifecycle.drivers) + 1],
                  !.drivers = Append(@, "created"),
                  !.count = @ + 1, !.phase = "connect called"]
  /\ UNCHANGED preparedStatements
  /\ LifecycleFrame

\* await this.client.connect() settles (line 59).
ConnectSettle(c) ==
  /\ lifecycle.callers[c].pc = "connecting"
  /\ LET id == lifecycle.callers[c].id
     IN IF cluster.reachable /\ lifecycle.drivers[id] = "created"
        THEN lifecycle' = [lifecycle EXCEPT !.callers[c].pc = "setup",
                                            !.drivers[id] = "connected"]
        ELSE lifecycle' =
               [lifecycle EXCEPT
                  !.callers[c].pc = "rejected",
                  !.callers[c].message = "NoHostAvailableError",
                  !.drivers[id] = IF @ = "created" THEN "failed" ELSE @]
  /\ UNCHANGED <<client, preparedStatements>>
  /\ LifecycleFrame

\* The rest of connect() (lines 62-76), its awaits taken together: USE and
\* prepareStatements, any error of which is caught, with listKeyspaces
\* called in the catch.
ConnectSetup(c) ==
  /\ lifecycle.callers[c].pc = "setup"
  /\ IF client = NullClient
     THEN /\ lifecycle' = [lifecycle EXCEPT
                             !.callers[c].pc = "rejected",
                             !.callers[c].message = NotConnectedMessage]
          /\ UNCHANGED preparedStatements
     ELSE /\ lifecycle' =
               [lifecycle EXCEPT
                  !.callers[c].pc = "resolved",
                  !.callers[c].established =
                     lifecycle.drivers[client.id] = "connected"]
          /\ preparedStatements' =
               IF cluster.keyspace /\ cluster.table
               THEN preparedStatements \cup {"getHistoricalFeatures"}
               ELSE preparedStatements
  /\ UNCHANGED client
  /\ LifecycleFrame

\* close() up to its await (lines 252-254): nothing to do without a client.
Close(c) ==
  /\ MayCall(c)
  /\ IF client = NullClient
     THEN lifecycle' = [lifecycle EXCEPT
                          !.callers[c] = [Started("close") EXCEPT !.pc = "resolved"],
                          !.count = @ + 1, !.phase = "disconnected"]
     ELSE lifecycle' = [lifecycle EXCEPT
                          !.callers[c] = [Started("close") EXCEPT
                                            !.pc = "shutdown", !.shutdowns = 1],
                          !.count = @ + 1]
  /\ UNCHANGED <<client, preparedStatements>>
  /\ LifecycleFrame

\* this.client is left as it is.
AfterShutdown_keepsClient == client

\* this.client = null (line 256).
AfterShutdown == NullClient

\* await this.client.shutdown() settles: this.client = null (lines 254-256).
CloseSettle(c) ==
  /\ lifecycle.callers[c].pc = "shutdown"
  /\ client' = AfterShutdown
  /\ lifecycle' = [lifecycle EXCEPT
                     !.callers[c].pc = "resolved",
                     !.drivers[lifecycle.callers[c].id] = "shutdown",
                     !.phase = "disconnected"]
  /\ UNCHANGED preparedStatements
  /\ LifecycleFrame

\* getHistoricalFeatures, listKeyspaces, testConnection or getTableSchema up
\* to its await: the throw without a client, else the query is issued.
Query(c) ==
  /\ MayCall(c)
  /\ \E op \in QueryOps :
       IF client = NullClient
       THEN lifecycle' = [lifecycle EXCEPT
                            !.callers[c] = [Started(op) EXCEPT
                                              !.pc = "rejected",
                                              !.message = NotConnectedMessage],
                            !.count = @ + 1]
       ELSE lifecycle' = [lifecycle EXCEPT
                            !.callers[c] = [Started(op) EXCEPT
                                              !.pc = "executing", !.queries = 1],
                            !.queries = @ + 1,
                            !.count = @ + 1]
  /\ UNCHANGED <<client, preparedStatements>>
  /\ LifecycleFrame

\* await this.client.execute(...) settles: with an error at any time, with
\* rows when its driver client is connected.
QuerySettle(c) ==
  /\ lifecycle.callers[c].pc = "executing"
  /\ \E reply \in {QueryError} \cup
                    (IF lifecycle.drivers[lifecycle.callers[c].id] = "connected"
                     THEN {[kind |-> "rows", rows |-> <<>>]} ELSE {}) :
       lifecycle' =
         [lifecycle EXCEPT
            !.callers[c].pc = QueryResult(lifecycle.callers[c].op, reply).pc,
            !.callers[c].message = QueryResult(lifecycle.callers[c].op, reply).message]
  /\ UNCHANGED <<client, preparedStatements>>
  /\ LifecycleFrame

LifecycleNext ==
  \E c \in LifecycleCallers :
    \/ Connect(c)
    \/ ConnectSettle(c)
    \/ ConnectSetup(c)
    \/ Close(c)
    \/ CloseSettle(c)
    \/ Query(c)
    \/ QuerySettle(c)

LifecycleSpec == LifecycleInit /\ [][LifecycleNext]_vars

\* C26: while the ScyllaClient is disconnected, that is before its first
\* connect() or after a close() with no connect() since, this.client is
\* null, and a call then made of getHistoricalFeatures, listKeyspaces,
\* testConnection or getTableSchema is rejected with 'Not connected. Call
\* connect() first.' and issues no query; a close() on a null client
\* resolves without a shutdown; a connect() then made creates a new driver
\* client.
C26_Lifecycle ==
  /\ lifecycle.phase = "disconnected" => client = NullClient
  /\ \A c \in LifecycleCallers :
       LET call == lifecycle.callers[c]
       IN call.pc # "idle" =>
            /\ (call.op \in QueryOps /\ call.phase = "disconnected") =>
                 /\ call.pc = "rejected"
                 /\ call.message = NotConnectedMessage
                 /\ call.queries = 0
            /\ (call.op = "close" /\ call.wasNull) =>
                 /\ call.pc = "resolved"
                 /\ call.shutdowns = 0
            /\ (call.op = "connect" /\ call.phase = "disconnected") =>
                 /\ call.created = 1
                 /\ call.id \in DOMAIN lifecycle.drivers
                 /\ call.id > call.known

\* C27: a call of connect() that resolved did so with the driver client of
\* this.client connected, also when it was made during another connect()
\* or after one that failed; and no two driver clients are in use at once.
C27_ConnectResolvedMeansConnected ==
  /\ \A c \in LifecycleCallers :
       LET call == lifecycle.callers[c]
       IN (call.pc = "resolved" /\ call.op = "connect") => call.established
  /\ Cardinality({k \in DOMAIN lifecycle.drivers :
                    lifecycle.drivers[k] \in {"created", "connected"}}) <= 1

\* The connect() of a is waiting for the driver; the connect() of b, made
\* meanwhile, has resolved with the driver client not connected.
C27_Witness ==
  /\ lifecycle.callers["a"].pc = "connecting"
  /\ lifecycle.callers["b"].pc = "resolved"
  /\ lifecycle.callers["b"].op = "connect"
  /\ lifecycle.callers["b"].message = "Already connected"
  /\ ~lifecycle.callers["b"].established
  /\ lifecycle.drivers = <<"created">>

\* After a connect() and a close() that resolved, getTableSchema() was
\* rejected without a query.
C26_Witness ==
  /\ lifecycle.callers["a"].pc = "rejected"
  /\ lifecycle.callers["b"].pc = "resolved"
  /\ lifecycle.drivers = <<"shutdown">>
  /\ lifecycle.queries = 0
  /\ client = NullClient
  /\ lifecycle.callers["a"].op = "getTableSchema"
  /\ lifecycle.callers["a"].phase = "disconnected"
  /\ lifecycle.callers["a"].message = NotConnectedMessage
  /\ lifecycle.callers["b"].op = "close"
  /\ lifecycle.callers["b"].shutdowns = 1

\* ------------------------------------- the pipelines of client-with-scylla.js

\* The functions that merge historical and real-time features.
PipelineModes == {"runInferencePipeline", "runBatchInference", "predict"}

\* A GAID that is null instead of a string.
NullGaid == "null"

\* The decimal digits of a natural number, as code points.
RECURSIVE DecimalText(_)
DecimalText(n) ==
  IF n < 10 THEN <<48 + n>> ELSE DecimalText(n \div 10) \o <<48 + (n % 10)>>

\* Number.prototype.toString of a column value (held in thousandths): the
\* integer part, and the fraction without trailing zeros after a point.
CellToString(cell) ==
  LET whole == cell.v \div 1000
      frac == cell.v % 1000
      digits == IF frac % 100 = 0 THEN <<frac \div 100>>
                ELSE IF frac % 10 = 0 THEN <<frac \div 100, (frac \div 10) % 10>>
                ELSE <<frac \div 100, (frac \div 10) % 10, frac % 10>>
  IN DecimalText(whole)
       \o (IF frac = 0 THEN <<>>
           ELSE <<46>> \o [n \in DOMAIN digits |-> 48 + digits[n]])

\* Number.prototype.toString of a parsed number.
NumberToString(number) ==
  (IF number.neg THEN <<45>> ELSE <<>>)
    \o DecimalText(number.int)
    \o (IF number.frac = <<>> THEN <<>>
        ELSE <<46>> \o [n \in DOMAIN number.frac |-> 48 + DigitValue(number.frac[n])])

\* key: [value], a property of an object literal.
Entry(key, value) == [key |-> key, values |-> ArrayOf(<<value>>)]

\* gaid: [gaid]
GaidValue(gaid) ==
  IF gaid = NullGaid THEN ObjectValue
  ELSE StringValue(<<50, 51, 49, 50, 51, 52>>
                     \o <<IF gaid = "2312341" THEN 49
                          ELSE IF gaid = "2312342" THEN 50 ELSE 51>>)

\* { ...map, ...more }: a property of more replaces the one of the same key,
\* in its place, and a new one goes last.
RECURSIVE Spread(_, _)
Spread(map, more) ==
  IF more = <<>> THEN map
  ELSE Spread(
         IF \E n \in 1..Len(map) : map[n].key = more[1].key
         THEN [n \in 1..Len(map) |->
                 IF map[n].key = more[1].key THEN more[1] ELSE map[n]]
         ELSE Append(map, more[1]),
         Tail(more))

\* combinedFeatures of runInferencePipeline (lines 173-183) and of
\* runBatchInference (lines 277-284).
CombinedFeatures(gaid, historicalFeatures, realtimeFeatures) ==
  Spread(<<Entry("gaid", GaidValue(gaid)),
           Entry("historical_ctr",
                 StringValue(CellToString(historicalFeatures.historical_ctr))),
           Entry("historical_cvr",
                 StringValue(CellToString(historicalFeatures.historical_cvr))),
           Entry("avg_watch_time",
                 StringValue(CellToString(historicalFeatures.avg_watch_time))),
           Entry("engagement_score",
                 StringValue(CellToString(historicalFeatures.engagement_score)))>>,
         realtimeFeatures)

\* features of SimpleInferenceClient.predict (part_006:174-206).
PredictFeatures(historicalFeatures, realtimeFeatures) ==
  Spread(<<Entry("userid", StringValue(Text_749603295)),
           Entry("ad_type", StringValue(Text_SC_CPCV_1)),
           Entry("sourceApp", StringValue(<<83, 67>>))>>
           \o [n \in DOMAIN FeatureNames |->
                 Entry(FeatureNames[n],
                       StringValue(NumberToString(historicalFeatures[FeatureNames[n]])))],
         realtimeFeatures)

\* buildSequenceExample throws on a value that is no array or holds a value
\* of an unsupported type.
EncoderThrows(features) ==
  \E n \in 1..Len(features) :
    \/ ~features[n].values.isArray
    \/ \E k \in 1..Len(features[n].values.items) :
         ~IsSupported(features[n].values.items[k])

\* The real-time features of a call.
RealtimeFeatures ==
  { <<>>,
    <<Entry("ad_type", StringValue(Text_SC_CPCV_1))>>,
    <<Entry("historical_ctr", StringValue(<<48, 46, 57>>)),
      Entry("ageRange", NumberValue(42, 1))>>,
    <<Entry("requests_1_day", StringValue(<<55>>)),
      Entry("city", StringValue(Text_multibyte))>>,
    <<Entry("city", ObjectValue)>> }

\* The GAIDs of a call: one for runInferencePipeline and (as the key) for
\* predict, any number for runBatchInference.
PipelineGaids(mode) ==
  IF mode = "runBatchInference"
  THEN UNION {SeqsOfLen(GAIDs \cup {NullGaid}, n) : n \in 0..MaxGaids}
  ELSE IF mode = "runInferencePipeline" THEN SeqsOfLen(GAIDs \cup {NullGaid}, 1)
  ELSE {<<"2312341">>}

PipelineInit ==
  /\ \E mode \in PipelineModes :
       pipeline \in
         {[mode |-> mode, pc |-> IF mode = "predict" THEN "fetch" ELSE "connect",
           gaids |-> gaids, realtimeFeatures |-> realtime,
           fetched |-> <<>>, i |-> 1, handed |-> <<>>, results |-> <<>>,
           log |-> <<>>, error |-> "none", outcome |-> [status |-> "pending"]] :
            gaids \in PipelineGaids(mode), realtime \in RealtimeFeatures}
  /\ ingress = [pc |-> "idle"]
  /\ historical = [pc |-> "idle"]
  /\ scoring = [pc |-> "idle"]
  /\ lifecycle = [pc |-> "idle"]
  /\ BuilderIdle
  /\ HexIdle
  /\ CallsIdle
  /\ RpcIdle
  /\ ScyllaIdle

PipelineFrame ==
  UNCHANGED <<builderVars, hexVars, calls, rpc, scyllaVars, ingress, historical,
              scoring, lifecycle>>

\* The try block is left: predict settles, the pipelines go to their
\* finally.
Finish(p) == [p EXCEPT !.pc = IF p.mode = "predict" THEN "settle" ELSE "close"]

\* The work on GAID i up to its await: the features are merged and handed
\* to buildSequenceExample, whose throw ends the try block, and the request
\* is started; past the last GAID the results are returned.
Advance(p) ==
  IF p.i > Len(p.gaids) THEN Finish(p)
  ELSE LET features ==
             IF p.mode = "predict"
             THEN PredictFeatures(p.fetched[p.i], p.realtimeFeatures)
             ELSE CombinedFeatures(p.gaids[p.i], p.fetched[p.i], p.realtimeFeatures)
           q == [p EXCEPT !.handed = Append(@, [gaid |-> p.gaids[p.i],
                                                historical |-> p.fetched[p.i],
                                                features |-> features]),
                          !.log = Append(@, "buildSequenceExample")]
       IN IF EncoderThrows(features)
          THEN Finish([q EXCEPT !.error = "Unsupported value type"])
          ELSE [q EXCEPT !.pc = "infer", !.log = Append(@, "makeInferenceRequest")]

\* The failure of one GAID is passed over and the loop goes on.
OnFailure_skipsGaid(p, message) ==
  IF p.pc = "infer" THEN Advance([p EXCEPT !.i = @ + 1])
  ELSE Finish([p EXCEPT !.error = message])

\* An error thrown in the try block ends it (catch: throw error).
OnFailure(p, message) == Finish([p EXCEPT !.error = message])

\* await scyllaClient.connect() settles.
PipelineConnect ==
  /\ pipeline.pc = "connect"
  /\ \E ok \in BOOLEAN :
       LET p == [pipeline EXCEPT !.log = Append(@, "connect")]
       IN pipeline' =
            IF ok THEN [p EXCEPT !.pc = IF p.mode = "runInferencePipeline"
                                        THEN "test" ELSE "fetch"]
            ELSE OnFailure(p, "NoHostAvailableError")
  /\ PipelineFrame

\* await scyllaClient.testConnection() settles: true or false.
PipelineTest ==
  /\ pipeline.pc = "test"
  /\ pipeline' = [pipeline EXCEPT !.pc = "fetch", !.log = Append(@, "testConnection")]
  /\ PipelineFrame

\* The historical features arrive: of the one GAID, of all GAIDs from
\* batchGetHistoricalFeatures, or of predict's getHistoricalFeatures, which
\* alone can be rejected. The first GAID is then worked on.
PipelineFetch ==
  /\ pipeline.pc = "fetch"
  /\ LET p == [pipeline EXCEPT !.log = Append(@, "fetch")]
     IN IF pipeline.mode = "predict"
        THEN \E reply \in {r \in SimpleReplies :
                              r.ok => Len(r.components) \in {0, MaxComponents - 1}} :
               pipeline' =
                 IF reply.ok
                 THEN Advance([p EXCEPT !.fetched = <<SimpleHistoricalFeatures(reply.rows)>>])
                 ELSE OnFailure(p, "query error")
        ELSE \E found \in [1..Len(pipeline.gaids) -> BOOLEAN] :
               pipeline' =
                 Advance([p EXCEPT !.fetched =
                            [n \in 1..Len(p.gaids) |->
                               getHistoricalFeaturesWithDefaults(
                                 p.gaids[n],
                                 IF found[n]
                                 THEN [kind |-> "rows", rows |-> Rows(p.gaids[n])]
                                 ELSE QueryError).value]])
  /\ PipelineFrame

\* await makeInferenceRequest(...) settles: the result is pushed and the
\* next GAID worked on, or the error ends the try block.
PipelineInfer ==
  /\ pipeline.pc = "infer"
  /\ \E ok \in BOOLEAN :
       pipeline' =
         IF ok
         THEN Advance([pipeline EXCEPT
                         !.results = Append(@, [gaid |-> pipeline.gaids[pipeline.i],
                                                historicalFeatures |->
                                                  pipeline.fetched[pipeline.i]]),
                         !.i = @ + 1])
         ELSE OnFailure(pipeline, "14 UNAVAILABLE")
  /\ PipelineFrame

\* The finally block on an error path skipped.
Finally_onSuccessOnly(p) ==
  IF p.error = "none" THEN [p EXCEPT !.log = Append(@, "close")] ELSE p

\* finally { await scyllaClient.close(); }
Finally(p) == [p EXCEPT !.log = Append(@, "close")]

\* The finally block of the pipelines, and the promise settles.
PipelineClose ==
  /\ pipeline.pc = "close"
  /\ pipeline' = [Finally(pipeline) EXCEPT
                    !.pc = "settled",
                    !.outcome = IF pipeline.error = "none"
                                THEN [status |-> "resolved", value |-> pipeline.results]
                                ELSE [status |-> "rejected", error |-> pipeline.error]]
  /\ PipelineFrame

\* The promise of predict settles.
PredictSettle ==
  /\ pipeline.pc = "settle"
  /\ pipeline' = [pipeline EXCEPT
                    !.pc = "settled",
                    !.outcome = IF pipeline.error = "none"
                                THEN [status |-> "resolved", value |-> pipeline.results]
                                ELSE [status |-> "rejected", error |-> pipeline.error]]
  /\ PipelineFrame

PipelineNext ==
  \/ PipelineConnect
  \/ PipelineTest
  \/ PipelineFetch
  \/ PipelineInfer
  \/ PipelineClose
  \/ PredictSettle

PipelineSpec == PipelineInit /\ [][PipelineNext]_vars

InPipeline == pipeline.mode \in {"runInferencePipeline", "runBatchInference"}

\* C28: runInferencePipeline and runBatchInference call close() on their
\* Scylla client once, after the last step of the pipeline and before they
\* settle, on every path: after a failed connect() they are rejected with
\* its error, after a throw of the encoder with the encoder's error, after
\* a failed inference request with the request's error, and otherwise
\* they resolve.
C28_ClosedOnceOnEveryPath ==
  InPipeline =>
    /\ pipeline.pc # "settled" => Times(pipeline.log, "close") = 0
    /\ pipeline.pc = "settled" =>
         LET last == pipeline.log[Len(pipeline.log) - 1]
         IN /\ Times(pipeline.log, "close") = 1
            /\ pipeline.log[Len(pipeline.log)] = "close"
            /\ pipeline.log[1] = "connect"
            /\ pipeline.outcome =
                 (IF last = "connect"
                    THEN [status |-> "rejected", error |-> "NoHostAvailableError"]
                  ELSE IF last = "buildSequenceExample"
                    THEN [status |-> "rejected", error |-> "Unsupported value type"]
                  ELSE IF Times(pipeline.log, "makeInferenceRequest")
                            > Len(pipeline.results)
                    THEN [status |-> "rejected", error |-> "14 UNAVAILABLE"]
                  ELSE [status |-> "resolved", value |-> pipeline.results])

\* runInferencePipeline whose inference request failed: closed after it,
\* and rejected with its error.
C28_Witness ==
  /\ pipeline.mode = "runInferencePipeline"
  /\ pipeline.pc = "settled"
  /\ pipeline.log = <<"connect", "testConnection", "fetch", "buildSequenceExample",
                      "makeInferenceRequest", "close">>
  /\ pipeline.outcome = [status |-> "rejected", error |-> "14 UNAVAILABLE"]

KeysOf(map) == {map[n].key : n \in 1..Len(map)}
ValuesOf(map, key) == map[CHOOSE n \in 1..Len(map) : map[n].key = key].values

\* C29: a feature map handed to the encoder by runInferencePipeline,
\* runBatchInference or predict holds every key of the historical features
\* fetched and every real-time key; a real-time key has the real-time
\* values; a historical feature that is not overridden has one value, a
\* text, which the encoder makes a bytes record.
C29_FeatureMerge ==
  \A n \in DOMAIN pipeline.handed :
    LET h == pipeline.handed[n]
    IN /\ DOMAIN h.historical \subseteq KeysOf(h.features)
       /\ \A key \in KeysOf(pipeline.realtimeFeatures) :
            /\ key \in KeysOf(h.features)
            /\ ValuesOf(h.features, key) = ValuesOf(pipeline.realtimeFeatures, key)
       /\ \A key \in (DOMAIN h.historical \cap KeysOf(h.features))
                       \ (KeysOf(pipeline.realtimeFeatures) \cup {"gaid"}) :
            /\ ValuesOf(h.features, key).isArray
            /\ Len(ValuesOf(h.features, key).items) = 1
            /\ ValuesOf(h.features, key).items[1].typeof = "string"
            /\ DOMAIN FeatureOf(ValuesOf(h.features, key).items[1]) = {"bytesList"}

\* runInferencePipeline of a GAID whose row was found, with ad_type as the
\* real-time feature: last_interaction_ts was fetched and is not in the map
\* handed to the encoder.
C29_Witness ==
  /\ pipeline.mode = "runInferencePipeline"
  /\ pipeline.gaids = <<"2312341">>
  /\ Len(pipeline.handed) = 1
  /\ pipeline.handed[1].historical.last_interaction_ts = Cell(1700000)
  /\ KeysOf(pipeline.handed[1].features) =
       {"gaid", "historical_ctr", "historical_cvr", "avg_watch_time",
        "engagement_score", "ad_type"}
  /\ ValuesOf(pipeline.handed[1].features, "historical_ctr").items[1]
       = StringValue(<<48, 46, 48, 50, 53>>)

\* C30: runBatchInference fetches the features of all GAIDs once, before
\* it works on any, and works on them one at a time in the order of gaids;
\* when every GAID succeeded it resolves with one result per GAID in that
\* order; when the encoding or the inference of a GAID failed it is
\* rejected, returns none of the results it had, and the GAIDs after that
\* one were not worked on.
C30_BatchSequential ==
  pipeline.mode = "runBatchInference" =>
    /\ Times(pipeline.log, "fetch") <= 1
    /\ \A n \in 1..Len(pipeline.log) :
         pipeline.log[n] \in {"buildSequenceExample", "makeInferenceRequest"} =>
           \E k \in 1..(n - 1) : pipeline.log[k] = "fetch"
    /\ Len(pipeline.handed) <= Len(pipeline.gaids)
    /\ \A n \in DOMAIN pipeline.handed : pipeline.handed[n].gaid = pipeline.gaids[n]
    /\ Len(pipeline.handed) <= Len(pipeline.results) + 1
    /\ Times(pipeline.log, "makeInferenceRequest") <= Len(pipeline.results) + 1
    /\ pipeline.pc = "settled" =>
         IF pipeline.outcome.status = "resolved"
         THEN /\ Len(pipeline.outcome.value) = Len(pipeline.gaids)
              /\ \A n \in DOMAIN pipeline.gaids :
                   /\ pipeline.outcome.value[n].gaid = pipeline.gaids[n]
                   /\ pipeline.outcome.value[n].historicalFeatures.gaid
                        = pipeline.gaids[n]
              /\ Len(pipeline.handed) = Len(pipeline.gaids)
         ELSE /\ DOMAIN pipeline.outcome = {"status", "error"}
              /\ pipeline.outcome.error \in {"Unsupported value type", "14 UNAVAILABLE"} =>
                   Len(pipeline.handed) = Len(pipeline.results) + 1

\* Two GAIDs: the first got its result, the second is null and made the
\* encoder throw; the call was rejected and the result of the first is not
\* returned.
C30_Witness ==
  /\ pipeline.mode = "runBatchInference"
  /\ pipeline.pc = "settled"
  /\ pipeline.gaids = <<"2312342", NullGaid>>
  /\ Len(pipeline.results) = 1
  /\ Len(pipeline.handed) = 2
  /\ pipeline.outcome = [status |-> "rejected", error |-> "Unsupported value type"]
  /\ pipeline.log = <<"connect", "fetch", "buildSequenceExample",
                      "makeInferenceRequest", "buildSequenceExample", "close">>

====
